---- MODULE Spec2Model ----
(***************************************************************************)
(* A model of five parts of the validator agent:                           *)
(*   - the block auction (AuctionBlock, bestBuilderBid, builderBid),       *)
(*   - the sync committee messenger (New, Prepare, Message),               *)
(*   - the sync committee aggregator (SetBeaconBlockRoot, Aggregate),      *)
(*   - the wallet account manager (Refresh, fetchAccountsForWallet and     *)
(*     the reading methods),                                               *)
(*   - the score of a beacon block proposal (TestScore).                   *)
(* Spec is the auction and SpecBid the auction with every answer of the   *)
(* first relay; SpecSync is the messenger with the aggregator, SpecMessage *)
(* the messenger alone and SpecCache the root cache with two calls of      *)
(* Aggregate; SpecPrepare is Prepare and SpecConstants its arithmetic for  *)
(* every value of the chain's constants; SpecWallet is the account manager *)
(* and SpecFetch the tasks that fetch a wallet's accounts; SpecScore is    *)
(* the score.                                                              *)
(***************************************************************************)
EXTENDS Integers, Sequences, FiniteSets, TLC

\* ------------------------------------------------------------------ bounds
MaxRelays == 2
MaxValue == 2
MaxHeader == 2
MaxSlot == 2
MaxValidator == 2
MaxSubcommittee == 0
MaxRoot == 2
MaxTarget == 3
MaxHash == 1
MaxPositions == 2
MaxPrepareRuns == 2
MaxPubKey == 2
MaxAttestations == 1
MaxBit == 2
MaxProposerSlashings == 1
MaxParentDistance == 4
MaxAggregateCalls == 2
MaxStores == 2
MaxWalletAccounts == 3
MaxConcurrency == 2
MaxReadLocks == 1
MaxSpecValue == 3
MaxContributionIndex == 3

\* SLOTS_PER_EPOCH of the beacon chain specification, as the messenger reads it.
slotsPerEpoch == 2
\* SYNC_COMMITTEE_SIZE and SYNC_COMMITTEE_SUBNET_COUNT, as the messenger reads them.
syncCommitteeSize == 4
syncCommitteeSubnetCount == 2

Relays == 1..MaxRelays
Headers == 1..MaxHeader
Slots == 1..MaxSlot
Validators == 1..MaxValidator
Subcommittees == 0..MaxSubcommittee
Roots == 1..MaxRoot
\* a nil *phase0.Root
NilRoot == 0

\* nil pointers, nil errors, nil results
Nil == [nil |-> TRUE]

VARIABLES
    \* ---- block auction
    pc,               \* where AuctionBlock is: idle, loop1, loop2, returned
    slot,             \* the slot of the running (or last) auction
    requests,         \* len(proposerConfig.Relays)
    tasks,            \* relay -> "none" (no goroutine), "running", or what it sent
    respCh,           \* buffered channel of builderBidResponse
    errCh,            \* buffered channel of errors (the provider that failed)
    responded, errored, timedOut, softTimedOut,
    bestScore,
    res,              \* blockauctioneer.Results being built
    softDone,         \* softCtx.Done() is readable
    ctxErr,           \* ctx of bestBuilderBid: "none", "deadline", "canceled"
    builderBidsCache, \* slot -> (parentHash:pubkey -> bid)
    executionConfigMu, \* s.executionConfigMu: the read locks held
    ret,              \* what AuctionBlock returned: [results, err]
    metrics,          \* the metrics this call of AuctionBlock has emitted
    \* ---- sync committee messenger
    msgPc,            \* where Message is: idle, signing, done
    msgDuty,          \* the duty passed to Message
    msgHead,          \* what BeaconBlockRoot(ctx, "head") gave Message: [err, root]
    msgRoot,          \* beaconBlockRoot of Message
    msgPending,       \* validator indices whose signing goroutine is running
    msgSigned,        \* validator indices whose SignSyncCommitteeRoot succeeded
    msgs,             \* the messages collected under msgsMu
    msgSubmitted,     \* the calls of SubmitSyncCommitteeMessages by this call: [msgs, err]
    msgStatus,        \* status given to SyncCommitteeMessagesCompleted
    msgRet,           \* what Message returned: [msgs, err]; msgs is Nil or [list |-> the slice]
    \* ---- sync committee aggregator
    beaconBlockRoots, \* slot -> root
    aggPc,            \* where Aggregate is: idle, head, pairs, done
    aggDuty,          \* the duty passed to Aggregate
    aggRoot,          \* beaconBlockRoot of Aggregate
    aggPairFailed,    \* a contribution fetch or a signing failed in this call
    aggPos,           \* index into duty.ValidatorIndices
    aggSubsLeft,      \* subcommittees of the current validator not yet visited
    signedContributionAndProofs,
    aggSubmitted,     \* the calls of SubmitSyncCommitteeContributions: [batch, err]
    aggStatus,        \* status given to SyncCommitteeAggregationsCompleted
    \* ---- sync committee messenger, Prepare
    targetAggregatorsPerSyncCommittee,
    prepPc,           \* where Prepare is: idle, running, done
    prepDuty,         \* the duty passed to Prepare
    prepSigner,       \* what the selection signer gives for the duty's slot, as far as asked
    prepCalls,        \* pair -> the calls of the selection signer in this run of Prepare
    aggregatorSubcommittees, \* of the duty: validator -> (subcommittee -> signature)
    prepPos,          \* index into duty.ValidatorIndices()
    prepSubsLeft,     \* subcommittees of the current validator not yet visited
    prepRuns,         \* the calls of Prepare with this duty
    prepFirst,        \* after the first of them: [assignments, err]
    prepRet,          \* what Prepare returned
    \* ---- wallet account manager
    accounts,         \* s.accounts: the public keys that have an account
    mutex,            \* s.mutex: [writer, readers]
    refreshPc,        \* where Refresh is: idle, lock, write, unlock, validators
    refreshNew,       \* the accounts map refreshAccounts has built
    refreshKeys,      \* the public keys refreshValidators gave the validators manager
    readPc,           \* where the call of the duty evaluation is
    readOp,           \* the method it called
    readArg,          \* with what: [pubkey, indices, current]
    readKeys,         \* pubKeys of ValidatingAccountsForEpoch(ByIndex)
    readLeft,         \* the validators its loop has not visited yet
    readOut,          \* validatingAccounts, or the account found
    \* ---- beacon block proposal score
    proposal,         \* the block proposal scored
    scores,           \* parent slot -> the score scoreBeaconBlockProposal gave
    \* ---- the root cache with several calls of Aggregate
    calls,            \* call of Aggregate -> [pc, slot, root, from, status]
    stored,           \* slot -> the calls of SetBeaconBlockRoot for it
    taken,            \* slot -> the calls of Aggregate that got its root from the cache
    \* ---- fetchAccountsForWallet
    processConcurrency, \* s.processConcurrency
    fetchPc,          \* where fetchAccountsForWallet is: idle, loop, wait, returned
    fetchLeft,        \* the accounts of the wallet the loop has not reached
    fetchTasks,       \* account -> where its goroutine is
    sem,              \* the weight of the semaphore that is acquired
    wg,               \* the counter of the wait group
    fetchCtx,         \* ctx: live or done
    fetched,          \* the accounts map the tasks fill
    \* ---- the messenger's arithmetic on the constants of the chain specification
    specConstants,    \* what New read: [size, count, target]
    computed          \* the last computation: [op, panic, value]

auctionVars == <<pc, slot, requests, tasks, respCh, errCh, responded, errored,
                 timedOut, softTimedOut, bestScore, res, softDone, ctxErr,
                 builderBidsCache, executionConfigMu, ret, metrics>>
messageVars == <<msgPc, msgDuty, msgHead, msgRoot, msgPending, msgSigned, msgs,
                 msgSubmitted, msgStatus, msgRet>>
aggregateVars == <<aggPc, aggDuty, aggRoot, aggPairFailed, aggPos,
                   aggSubsLeft,
                   signedContributionAndProofs, aggSubmitted, aggStatus>>
syncVars == <<messageVars, aggregateVars, beaconBlockRoots>>
prepareVars == <<targetAggregatorsPerSyncCommittee, prepPc, prepDuty, prepSigner, prepCalls,
                 aggregatorSubcommittees, prepPos, prepSubsLeft, prepRuns,
                 prepFirst, prepRet>>
walletVars == <<accounts, mutex, refreshPc, refreshNew, refreshKeys,
                readPc, readOp, readArg, readKeys, readLeft, readOut>>
scoreVars == <<proposal, scores>>
cacheVars == <<calls, stored, taken>>
fetchVars == <<processConcurrency, fetchPc, fetchLeft, fetchTasks, sem, wg,
               fetchCtx, fetched>>
constVars == <<specConstants, computed>>
restVars == <<cacheVars, fetchVars, constVars>>
vars == <<auctionVars, syncVars, prepareVars, walletVars, scoreVars, restVars>>

\* ------------------------------------------------------------ maps (Go map)
\* m[k] = v
MapSet(m, k, v) == [x \in DOMAIN m \cup {k} |-> IF x = k THEN v ELSE m[x]]
\* delete(m, k)
MapDelete(m, k) == [x \in DOMAIN m \ {k} |-> m[x]]
EmptyMap == [x \in {} |-> 0]

\* errors.Wrap of github.com/pkg/errors: wrapping a nil error gives nil.
ErrorsWrap(err, message) ==
    IF err = Nil THEN Nil ELSE [msg |-> message, cause |-> err]
\* errors.New / fmt.Errorf
ErrorsNew(message) == [msg |-> message]

\* ================================================================ AUCTION
\* The (parentHash, pubkey) pair of the proposals auctioned here.
SubKeys == {"parentHash:pubkey"}
\* The keys a relay configuration or a provider may give: none, a malformed
\* one, or a well-formed one.
PublicKeyValues == {"nil", "malformed", "k1", "k2"}

\* chainTime.StartOfSlot(slot).Unix(): genesis at 0, one second a slot.
StartOfSlot(s) == s

\* What provider.BuilderBid returns: an error, a nil bid, or a bid with its fields.
Answers ==
    [kind : {"transportErr", "nil", "marshalErr", "empty", "valueErr"}]
    \cup
    [kind : {"bid"}, value : 0..MaxValue, header : Headers,
     feeRecipient : {"zero", "set"}, timestamp : 0..MaxSlot,
     signer : {"k1", "k2"}]

\* The relay configuration read by builderBid, with provider.Pubkey().
RelayConfigs ==
    [MinValue : 0..MaxValue, PublicKey : PublicKeyValues,
     providerPubkey : PublicKeyValues]

\* verifyBidSignature that takes the provider's key before the configured one.
verifyBidSignatureProviderFirst(relayConfig, bid) ==
    LET relayPubkey == IF relayConfig.providerPubkey = "nil"
                       THEN relayConfig.PublicKey
                       ELSE relayConfig.providerPubkey
    IN  IF relayPubkey = "nil"
        THEN [verified |-> TRUE, err |-> Nil]
        ELSE IF relayPubkey = "malformed"
        THEN [verified |-> FALSE,
              err |-> ErrorsNew("invalid public key supplied with bid")]
        ELSE [verified |-> bid.signer = relayPubkey, err |-> Nil]

\* verifyBidSignature: [verified, err]
verifyBidSignature(relayConfig, bid) ==
    LET relayPubkey == IF relayConfig.PublicKey = "nil"
                       THEN relayConfig.providerPubkey
                       ELSE relayConfig.PublicKey
    IN  IF relayPubkey = "nil"
        THEN [verified |-> TRUE, err |-> Nil]
        ELSE IF relayPubkey = "malformed"
        THEN [verified |-> FALSE,
              err |-> ErrorsNew("invalid public key supplied with bid")]
        ELSE [verified |-> bid.signer = relayPubkey, err |-> Nil]

ErrOutcome == [ch |-> "err"]
RespOutcome(bid, score) == [ch |-> "resp", bid |-> bid, score |-> score]
TheBid(answer) == [value |-> answer.value, header |-> answer.header]

\* builderBid with the fee recipient checked before the minimum value.
builderBidOutcomeFeeRecipientFirst(answer, relayConfig, s) ==
    IF answer.kind = "transportErr" THEN ErrOutcome
    ELSE IF answer.kind = "nil" THEN RespOutcome(Nil, 0)
    ELSE IF answer.kind = "marshalErr" THEN ErrOutcome
    ELSE IF answer.kind = "empty" THEN ErrOutcome
    ELSE IF answer.kind = "valueErr" THEN ErrOutcome
    ELSE IF answer.value = 0 THEN ErrOutcome
    ELSE IF answer.feeRecipient = "zero" THEN ErrOutcome
    ELSE IF answer.value < relayConfig.MinValue THEN RespOutcome(Nil, 0)
    ELSE IF StartOfSlot(s) # answer.timestamp THEN ErrOutcome
    ELSE LET v == verifyBidSignature(relayConfig, answer)
         IN  IF v.err # Nil THEN ErrOutcome
             ELSE IF ~v.verified THEN ErrOutcome
             ELSE RespOutcome(TheBid(answer), answer.value)

\* builderBidOutcome without the check of the timestamp.
builderBidOutcomeNoTimestamp(answer, relayConfig, s) ==
    IF answer.kind = "transportErr" THEN ErrOutcome
    ELSE IF answer.kind = "nil" THEN RespOutcome(Nil, 0)
    ELSE IF answer.kind = "marshalErr" THEN ErrOutcome
    ELSE IF answer.kind = "empty" THEN ErrOutcome
    ELSE IF answer.kind = "valueErr" THEN ErrOutcome
    ELSE IF answer.value = 0 THEN ErrOutcome
    ELSE IF answer.value < relayConfig.MinValue THEN RespOutcome(Nil, 0)
    ELSE IF answer.feeRecipient = "zero" THEN ErrOutcome
    ELSE LET v == verifyBidSignature(relayConfig, answer)
         IN  IF v.err # Nil THEN ErrOutcome
             ELSE IF ~v.verified THEN ErrOutcome
             ELSE RespOutcome(TheBid(answer), answer.value)

\* builderBid, from the provider's answer to the one message the task sends.
builderBidOutcome(answer, relayConfig, s) ==
    IF answer.kind = "transportErr" THEN ErrOutcome
    ELSE IF answer.kind = "nil" THEN RespOutcome(Nil, 0)
    ELSE IF answer.kind = "marshalErr" THEN ErrOutcome
    ELSE IF answer.kind = "empty" THEN ErrOutcome
    ELSE IF answer.kind = "valueErr" THEN ErrOutcome
    ELSE IF answer.value = 0 THEN ErrOutcome
    ELSE IF answer.value < relayConfig.MinValue THEN RespOutcome(Nil, 0)
    ELSE IF answer.feeRecipient = "zero" THEN ErrOutcome
    ELSE IF StartOfSlot(s) # answer.timestamp THEN ErrOutcome
    ELSE LET v == verifyBidSignature(relayConfig, answer)
         IN  IF v.err # Nil THEN ErrOutcome
             ELSE IF ~v.verified THEN ErrOutcome
             ELSE RespOutcome(TheBid(answer), answer.value)

\* Every message a relay task can send in an auction for slot s.
BuilderBidOutcomes ==
    [s \in Slots |->
        {builderBidOutcome(a, c, s) : a \in Answers, c \in RelayConfigs}]

\* bidsEqual comparing the values, not the headers.
bidsEqualByValue(bid1, bid2) == bid1.value = bid2.value

\* bidsEqual: the header hash tree roots are the same.
bidsEqual(bid1, bid2) == bid1.header = bid2.header

EmptyResults == [Bid |-> Nil, Providers |-> <<>>, Values |-> EmptyMap]

\* ProcessResponse without the "continue" of a response that has no bid: the
\* zero score of a relay that declined is recorded too.
ProcessResponseRecordsAll(r, best, resp) ==
    LET r2 ==
           IF resp.bid = Nil THEN r
           ELSE IF resp.score > best
           THEN [r EXCEPT !.Bid = resp.bid, !.Providers = <<resp.provider>>]
           ELSE IF r.Bid # Nil /\ resp.score = best /\ bidsEqual(r.Bid, resp.bid)
           THEN [r EXCEPT !.Providers = Append(r.Providers, resp.provider)]
           ELSE r
    IN  [res |-> [r2 EXCEPT !.Values = MapSet(r2.Values, resp.provider, resp.score)],
         bestScore |-> IF resp.bid # Nil /\ resp.score > best THEN resp.score ELSE best]

\* ProcessResponse that puts a provider of the same bid before the others.
ProcessResponsePrepends(r, best, resp) ==
    IF resp.bid = Nil
    THEN [res |-> r, bestScore |-> best]
    ELSE LET r2 ==
                IF resp.score > best
                THEN [r EXCEPT !.Bid = resp.bid, !.Providers = <<resp.provider>>]
                ELSE IF r.Bid # Nil /\ resp.score = best /\ bidsEqual(r.Bid, resp.bid)
                THEN [r EXCEPT !.Providers = <<resp.provider>> \o r.Providers]
                ELSE r
         IN  [res |-> [r2 EXCEPT !.Values = MapSet(r2.Values, resp.provider, resp.score)],
              bestScore |-> IF resp.score > best THEN resp.score ELSE best]

\* ProcessResponse that takes two bids of the same score for the same bid.
ProcessResponseTieOnValue(r, best, resp) ==
    IF resp.bid = Nil
    THEN [res |-> r, bestScore |-> best]
    ELSE LET r2 ==
                IF resp.score > best
                THEN [r EXCEPT !.Bid = resp.bid, !.Providers = <<resp.provider>>]
                ELSE IF r.Bid # Nil /\ resp.score = best
                THEN [r EXCEPT !.Providers = Append(r.Providers, resp.provider)]
                ELSE r
         IN  [res |-> [r2 EXCEPT !.Values = MapSet(r2.Values, resp.provider, resp.score)],
              bestScore |-> IF resp.score > best THEN resp.score ELSE best]

\* ProcessResponse with ">=" for ">": the latest of two bids of the same score wins.
ProcessResponseLatestWins(r, best, resp) ==
    IF resp.bid = Nil
    THEN [res |-> r, bestScore |-> best]
    ELSE LET r2 ==
                IF resp.score >= best
                THEN [r EXCEPT !.Bid = resp.bid, !.Providers = <<resp.provider>>]
                ELSE r
         IN  [res |-> [r2 EXCEPT !.Values = MapSet(r2.Values, resp.provider, resp.score)],
              bestScore |-> IF resp.score > best THEN resp.score ELSE best]

\* ProcessResponse that keeps the first bid read as the winner.
ProcessResponseFirstBidWins(r, best, resp) ==
    IF resp.bid = Nil
    THEN [res |-> r, bestScore |-> best]
    ELSE LET r2 ==
                IF r.Bid = Nil
                THEN [r EXCEPT !.Bid = resp.bid, !.Providers = <<resp.provider>>]
                ELSE r
         IN  [res |-> [r2 EXCEPT !.Values = MapSet(r2.Values, resp.provider, resp.score)],
              bestScore |-> IF resp.score > best THEN resp.score ELSE best]

\* The body of "case resp := <-respCh" after responded++, in both loops:
\* [res, bestScore] after the response.
ProcessResponse(r, best, resp) ==
    IF resp.bid = Nil
    THEN [res |-> r, bestScore |-> best]
    ELSE LET r2 ==
                IF resp.score > best
                THEN [r EXCEPT !.Bid = resp.bid, !.Providers = <<resp.provider>>]
                ELSE IF r.Bid # Nil /\ resp.score = best /\ bidsEqual(r.Bid, resp.bid)
                THEN [r EXCEPT !.Providers = Append(r.Providers, resp.provider)]
                ELSE r
         IN  [res |-> [r2 EXCEPT !.Values = MapSet(r2.Values, resp.provider, resp.score)],
              bestScore |-> IF resp.score > best THEN resp.score ELSE best]

NoTask == [st |-> "none"]
Running == [st |-> "running"]

AuctionInit ==
    /\ pc = "idle"
    /\ slot = 1
    /\ requests = 0
    /\ tasks = [r \in Relays |-> NoTask]
    /\ respCh = <<>>
    /\ errCh = <<>>
    /\ responded = 0
    /\ errored = 0
    /\ timedOut = 0
    /\ softTimedOut = 0
    /\ bestScore = 0
    /\ res = EmptyResults
    /\ softDone = FALSE
    /\ ctxErr = "none"
    /\ builderBidsCache = EmptyMap
    /\ executionConfigMu = 0
    /\ ret = [results |-> Nil, err |-> Nil]
    /\ metrics = {}

\* AuctionBlock without the check for a proposer configuration without relays.
NoRelaysNeverChecked(n) == FALSE

\* len(proposerConfig.Relays) == 0
NoRelays(n) == n = 0

\* sync.RWMutex.RLock and RUnlock, on the number of read locks held
RLock(readers) == readers + 1
RUnlock(readers) == readers - 1

\* AuctionBlock up to the first select of bestBuilderBid.  config is what the
\* accounts provider and the execution configuration give: no account, an error,
\* or a proposer configuration of n relays, of which those in launch have a
\* builder client that supplies bids.
AuctionBlock(s, config, n, launch) ==
    /\ pc \in {"idle", "returned"}
    /\ slot' = s
    /\ IF config = "noAccount"
       THEN /\ ret' = [results |-> Nil, err |-> ErrorsNew("no account found for public key")]
            /\ pc' = "returned"
            /\ n = 0 /\ launch = {}
            /\ UNCHANGED executionConfigMu
       ELSE IF config = "configErr"
       THEN /\ ret' = [results |-> Nil,
                       err |-> ErrorsWrap(ErrorsNew("config"), "failed to obtain proposer configuration")]
            /\ pc' = "returned"
            /\ n = 0 /\ launch = {}
            /\ executionConfigMu < MaxReadLocks
            /\ executionConfigMu' = RLock(executionConfigMu)
       ELSE IF NoRelays(n)
       THEN /\ ret' = [results |-> Nil, err |-> Nil]
            /\ pc' = "returned"
            /\ launch = {}
            /\ executionConfigMu' = RUnlock(RLock(executionConfigMu))
       ELSE /\ ret' = [results |-> Nil, err |-> Nil]
            /\ pc' = "loop1"
            /\ executionConfigMu' = RUnlock(RLock(executionConfigMu))
    /\ requests' = n
    /\ tasks' = [r \in Relays |-> IF r \in launch THEN Running ELSE NoTask]
    /\ respCh' = <<>>
    /\ errCh' = <<>>
    /\ responded' = 0
    /\ errored' = 0
    /\ timedOut' = 0
    /\ softTimedOut' = 0
    /\ bestScore' = 0
    /\ res' = EmptyResults
    /\ softDone' = FALSE
    /\ ctxErr' = "none"
    /\ metrics' = {}
    /\ UNCHANGED <<builderBidsCache, syncVars, prepareVars, walletVars, scoreVars, restVars>>

\* Channels that hold one message.
ChannelCapacityOfOne(req) == 1

\* make(chan ..., requests): the number of messages respCh holds, and errCh.
ChannelCapacity(req) == req

\* A goroutine builderBid that reports an error and sends a response as well.
builderBidSendsTwice(r) ==
    /\ tasks[r] = Running
    /\ \E o \in BuilderBidOutcomes[slot] :
          /\ tasks' = [tasks EXCEPT ![r] = [st |-> "sent", out |-> o]]
          /\ errCh' = Append(errCh, r)
          /\ respCh' = Append(respCh, [provider |-> r, bid |-> Nil, score |-> 0])
    /\ UNCHANGED <<pc, slot, requests, responded, errored, timedOut, softTimedOut,
                   bestScore, res, softDone, ctxErr, builderBidsCache, executionConfigMu,
                   ret, metrics, syncVars, prepareVars, walletVars, scoreVars, restVars>>

\* The goroutine builderBid of relay r: the grace sleep, the provider call, the
\* checks and its one send, which waits while the channel is full.
builderBid(r) ==
    /\ tasks[r] = Running
    /\ \E o \in BuilderBidOutcomes[slot] :
          /\ tasks' = [tasks EXCEPT ![r] = [st |-> "sent", out |-> o]]
          /\ IF o.ch = "err"
             THEN /\ Len(errCh) < ChannelCapacity(requests)
                  /\ errCh' = Append(errCh, r)
                  /\ UNCHANGED respCh
             ELSE /\ Len(respCh) < ChannelCapacity(requests)
                  /\ respCh' = Append(respCh,
                        [provider |-> r, bid |-> o.bid, score |-> o.score])
                  /\ UNCHANGED errCh
    /\ UNCHANGED <<pc, slot, requests, responded, errored, timedOut, softTimedOut,
                   bestScore, res, softDone, ctxErr, builderBidsCache, executionConfigMu, ret, metrics,
                   syncVars, prepareVars, walletVars, scoreVars, restVars>>

\* The goroutine builderBid of relay r as above, for a given answer of
\* provider.BuilderBid and a given relay configuration, which are kept with
\* the task.
builderBidOf(r, answer, relayConfig) ==
    /\ tasks[r] = Running
    /\ LET o == builderBidOutcome(answer, relayConfig, slot)
       IN  /\ tasks' = [tasks EXCEPT ![r] = [st |-> "sent", out |-> o,
                                             answer |-> answer,
                                             relayConfig |-> relayConfig]]
           /\ IF o.ch = "err"
              THEN /\ Len(errCh) < ChannelCapacity(requests)
                   /\ errCh' = Append(errCh, r)
                   /\ UNCHANGED respCh
              ELSE /\ Len(respCh) < ChannelCapacity(requests)
                   /\ respCh' = Append(respCh,
                         [provider |-> r, bid |-> o.bid, score |-> o.score])
                   /\ UNCHANGED errCh
    /\ UNCHANGED <<pc, slot, requests, responded, errored, timedOut, softTimedOut,
                   bestScore, res, softDone, ctxErr, builderBidsCache, executionConfigMu, ret, metrics,
                   syncVars, prepareVars, walletVars, scoreVars, restVars>>

\* The soft deadline (timeout/2) passes.
SoftDeadline ==
    /\ pc \in {"loop1", "loop2"}
    /\ ~softDone
    /\ softDone' = TRUE
    /\ UNCHANGED <<pc, slot, requests, tasks, respCh, errCh, responded, errored,
                   timedOut, softTimedOut, bestScore, res, ctxErr,
                   builderBidsCache, executionConfigMu, ret, metrics,
                   syncVars, prepareVars, walletVars, scoreVars, restVars>>

\* ctx is done, by its deadline or by the caller's cancellation; softCtx is its
\* child and is done with it.
CtxDone(why) ==
    /\ pc \in {"loop1", "loop2"}
    /\ ctxErr = "none"
    /\ ctxErr' = why
    /\ softDone' = TRUE
    /\ UNCHANGED <<pc, slot, requests, tasks, respCh, errCh, responded, errored,
                   timedOut, softTimedOut, bestScore, res, builderBidsCache, executionConfigMu, ret, metrics,
                   syncVars, prepareVars, walletVars, scoreVars, restVars>>

HardDeadline == CtxDone("deadline")
CallerCancel == CtxDone("canceled")

Loop1Cond == responded + errored + timedOut + softTimedOut # requests
Loop2Cond == responded + errored + timedOut # requests

\* case resp := <-respCh, in loop lp
LoopResp(lp, cond) ==
    /\ pc = lp
    /\ cond
    /\ respCh # <<>>
    /\ LET p == ProcessResponse(res, bestScore, Head(respCh))
       IN  /\ res' = p.res
           /\ bestScore' = p.bestScore
    /\ respCh' = Tail(respCh)
    /\ responded' = responded + 1
    /\ UNCHANGED <<pc, slot, requests, tasks, errCh, errored, timedOut,
                   softTimedOut, softDone, ctxErr, builderBidsCache, executionConfigMu, ret, metrics,
                   syncVars, prepareVars, walletVars, scoreVars, restVars>>

\* case err := <-errCh, in loop lp
LoopErr(lp, cond) ==
    /\ pc = lp
    /\ cond
    /\ errCh # <<>>
    /\ errCh' = Tail(errCh)
    /\ errored' = errored + 1
    /\ UNCHANGED <<pc, slot, requests, tasks, respCh, responded, timedOut,
                   softTimedOut, bestScore, res, softDone, ctxErr,
                   builderBidsCache, executionConfigMu, ret, metrics,
                   syncVars, prepareVars, walletVars, scoreVars, restVars>>

Loop1Resp == LoopResp("loop1", Loop1Cond)
Loop1Err == LoopErr("loop1", Loop1Cond)

\* SoftTimeout that counts the relays outstanding as timed out though none
\* has responded.
SoftTimeoutAlwaysTimesOut(req, resp, err, to) ==
    [timedOut |-> req - resp - err, softTimedOut |-> 0]

\* SoftTimeout that counts the relays outstanding as soft timed out though
\* one has responded.
SoftTimeoutKeepsWaiting(req, resp, err, to) ==
    [timedOut |-> to, softTimedOut |-> req - resp - err - to]

\* The counters after the soft timeout: [timedOut, softTimedOut]
SoftTimeout(req, resp, err, to) ==
    LET timedOutAfter == IF resp > 0 THEN req - resp - err ELSE to
    IN  [timedOut |-> timedOutAfter,
         softTimedOut |-> req - resp - err - timedOutAfter]

\* case <-softCtx.Done(), in loop 1
Loop1Soft ==
    /\ pc = "loop1"
    /\ Loop1Cond
    /\ softDone
    /\ LET after == SoftTimeout(requests, responded, errored, timedOut)
       IN  /\ timedOut' = after.timedOut
           /\ softTimedOut' = after.softTimedOut
    /\ UNCHANGED <<pc, slot, requests, tasks, respCh, errCh, responded, errored,
                   bestScore, res, softDone, ctxErr, builderBidsCache, executionConfigMu, ret, metrics,
                   syncVars, prepareVars, walletVars, scoreVars, restVars>>

\* Loop 1 ends; softCancel().
Loop1Exit ==
    /\ pc = "loop1"
    /\ ~Loop1Cond
    /\ pc' = "loop2"
    /\ softDone' = TRUE
    /\ UNCHANGED <<slot, requests, tasks, respCh, errCh, responded, errored,
                   timedOut, softTimedOut, bestScore, res, ctxErr,
                   builderBidsCache, executionConfigMu, ret, metrics,
                   syncVars, prepareVars, walletVars, scoreVars, restVars>>

Loop2Resp == LoopResp("loop2", Loop2Cond)
Loop2Err == LoopErr("loop2", Loop2Cond)

\* HardTimeout that leaves the relays outstanding to be waited for.
HardTimeoutKeepsWaiting(req, resp, err) == 0

\* timedOut after the hard timeout
HardTimeout(req, resp, err) == req - resp - err

\* case <-ctx.Done(), in loop 2
Loop2Hard ==
    /\ pc = "loop2"
    /\ Loop2Cond
    /\ ctxErr # "none"
    /\ timedOut' = HardTimeout(requests, responded, errored)
    /\ UNCHANGED <<pc, slot, requests, tasks, respCh, errCh, responded, errored,
                   softTimedOut, bestScore, res, softDone, ctxErr,
                   builderBidsCache, executionConfigMu, ret, metrics,
                   syncVars, prepareVars, walletVars, scoreVars, restVars>>

\* bestBuilderBidResult that returns the results though they have no bid.
bestBuilderBidResultAlways(r) == r

\* What bestBuilderBid returns once loop 2 has ended.
bestBuilderBidResult(r) == IF r.Bid = Nil THEN Nil ELSE r

\* CacheAfter that keeps the bid the cache already has for the key.
CacheAfterKeepsFirst(cache, s, subKey, results) ==
    IF results # Nil /\ results.Bid # Nil /\ s \notin DOMAIN cache
    THEN MapSet(cache, s, MapSet(EmptyMap, subKey, results.Bid))
    ELSE cache

\* The cache after AuctionBlock has seen the results of bestBuilderBid.
CacheAfter(cache, s, subKey, results) ==
    IF results # Nil /\ results.Bid # Nil
    THEN MapSet(cache, s,
                MapSet(IF s \in DOMAIN cache THEN cache[s] ELSE EmptyMap,
                       subKey, results.Bid))
    ELSE cache

\* The provider label of the metric of an auction without bid.
NoProvider == 0

\* monitorAuctionBlock and monitorBuilderBidDelta, as called by bestBuilderBid
\* at its end and by AuctionBlock for the results it got.
MetricsAfter(r) ==
    IF r.Bid = Nil
    THEN {[kind |-> "auction", provider |-> NoProvider, succeeded |-> FALSE]}
    ELSE {[kind |-> "auction", provider |-> r.Providers[i], succeeded |-> TRUE] :
             i \in DOMAIN r.Providers}
         \cup
         {[kind |-> "delta", provider |-> p, delta |-> r.Bid.value - r.Values[p]] :
             p \in DOMAIN r.Values \ {r.Providers[i] : i \in DOMAIN r.Providers}}

\* Loop 2 ends: cancel(), bestBuilderBid returns, and AuctionBlock caches the
\* winning bid and returns.
Loop2Exit ==
    /\ pc = "loop2"
    /\ ~Loop2Cond
    /\ LET results == bestBuilderBidResult(res)
       IN  /\ builderBidsCache' =
                 CacheAfter(builderBidsCache, slot, "parentHash:pubkey", results)
           /\ ret' = [results |-> results, err |-> Nil]
    /\ metrics' = MetricsAfter(res)
    /\ pc' = "returned"
    /\ UNCHANGED <<executionConfigMu, slot, requests, tasks, respCh, errCh, responded, errored,
                   timedOut, softTimedOut, bestScore, res, softDone, ctxErr,
                   syncVars, prepareVars, walletVars, scoreVars, restVars>>


\* =================================================== SYNC COMMITTEE MESSENGER
\* chainTimeService.SlotToEpoch
SlotToEpoch(s) == s \div slotsPerEpoch

\* The committee positions a duty gives a validator.
ContributionIndexSeqs == {<<0>>}

\* The duties Message is called with: a slot and the contribution indices of
\* each validator of the duty.
MessengerDuties ==
    UNION {[slot : Slots, contributionIndices : [vs -> ContributionIndexSeqs]] :
           vs \in SUBSET Validators}

\* What BeaconBlockRoot(ctx, "head") gives: an error, a nil root, or a root.
RootAnswers ==
    {[err |-> ErrorsNew("beacon node"), root |-> NilRoot], [err |-> Nil, root |-> NilRoot]}
    \cup [err : {Nil}, root : Roots]

\* SignSyncCommitteeRoot(account, epoch, root), when it succeeds.
SyncCommitteeRootSignature(v, epoch, root) ==
    [account |-> v, epoch |-> epoch, root |-> root]

\* SyncCommitteeMessage in which every goroutine reads one shared validator
\* index, the last of the duty.
SyncCommitteeMessageSharedIndex(duty, root, v) ==
    LET last == CHOOSE w \in DOMAIN duty.contributionIndices :
                    \A x \in DOMAIN duty.contributionIndices : x <= w
    IN  [Slot |-> duty.slot,
         BeaconBlockRoot |-> root,
         ValidatorIndex |-> last,
         Signature |-> [account |-> last, epoch |-> (duty.slot + 1) \div slotsPerEpoch,
                        root |-> root]]

\* SyncCommitteeMessage signed with the epoch of the duty's own slot.
SyncCommitteeMessageOwnEpoch(duty, root, v) ==
    [Slot |-> duty.slot,
     BeaconBlockRoot |-> root,
     ValidatorIndex |-> v,
     Signature |-> SyncCommitteeRootSignature(v, SlotToEpoch(duty.slot), root)]

\* The altair.SyncCommitteeMessage of validator v.
SyncCommitteeMessage(duty, root, v) ==
    [Slot |-> duty.slot,
     BeaconBlockRoot |-> root,
     ValidatorIndex |-> v,
     Signature |-> SyncCommitteeRootSignature(v, SlotToEpoch(duty.slot + 1), root)]

\* SetBeaconBlockRoot that keeps the root the slot already has.
SetBeaconBlockRootIfAbsent(roots, s, root) ==
    IF s \in DOMAIN roots THEN roots
    ELSE [x \in DOMAIN roots \cup {s} |-> IF x = s THEN root ELSE roots[x]]

\* SetBeaconBlockRoot
SetBeaconBlockRoot(roots, s, root) == MapSet(roots, s, root)

\* What Message returns when the beacon node gives no root.
EmptyRootReturn(err) ==
    [msgs |-> Nil, err |-> ErrorsWrap(err, "empty beacon block root obtained")]

MessageInit ==
    /\ msgPc = "idle"
    /\ msgDuty = [slot |-> 1, contributionIndices |-> EmptyMap]
    /\ msgHead = [err |-> Nil, root |-> NilRoot]
    /\ msgRoot = NilRoot
    /\ msgSigned = {}
    /\ msgPending = {}
    /\ msgs = <<>>
    /\ msgSubmitted = <<>>
    /\ msgStatus = "none"
    /\ msgRet = [msgs |-> Nil, err |-> Nil]

\* Message up to the start of the signing goroutines: the head root is fetched
\* and handed to the aggregator.
Message(duty, answer) ==
    /\ msgPc \in {"idle", "done"}
    /\ msgDuty' = duty
    /\ msgHead' = answer
    /\ msgSigned' = {}
    /\ msgs' = <<>>
    /\ msgSubmitted' = <<>>
    /\ IF answer.err # Nil
       THEN /\ msgStatus' = "failed"
            /\ msgRet' = [msgs |-> Nil,
                          err |-> ErrorsWrap(answer.err, "failed to obtain beacon block root")]
            /\ msgPc' = "done"
            /\ msgRoot' = NilRoot
            /\ msgPending' = {}
            /\ UNCHANGED beaconBlockRoots
       ELSE IF answer.root = NilRoot
       THEN /\ msgStatus' = "failed"
            /\ msgRet' = EmptyRootReturn(answer.err)
            /\ msgPc' = "done"
            /\ msgRoot' = NilRoot
            /\ msgPending' = {}
            /\ UNCHANGED beaconBlockRoots
       ELSE /\ msgStatus' = "none"
            /\ msgRet' = [msgs |-> Nil, err |-> Nil]
            /\ msgPc' = "signing"
            /\ msgRoot' = answer.root
            /\ beaconBlockRoots' = SetBeaconBlockRoot(beaconBlockRoots, duty.slot, answer.root)
            /\ msgPending' = DOMAIN duty.contributionIndices
    /\ UNCHANGED <<aggregateVars, auctionVars, prepareVars, walletVars, scoreVars, restVars>>

\* Collect in which a failed signature empties the batch.
CollectDropsAllOnFailure(collected, duty, root, v, signed) ==
    IF signed THEN Append(collected, SyncCommitteeMessage(duty, root, v))
    ELSE <<>>

\* The messages after the goroutine of validator v has ended; signed tells
\* whether SignSyncCommitteeRoot succeeded.
Collect(collected, duty, root, v, signed) ==
    IF signed THEN Append(collected, SyncCommitteeMessage(duty, root, v))
    ELSE collected

\* The signing goroutine of validator v, from contribute to wg.Done.
MessageSign(v, signed) ==
    /\ msgPc = "signing"
    /\ v \in msgPending
    /\ msgPending' = msgPending \ {v}
    /\ msgs' = Collect(msgs, msgDuty, msgRoot, v, signed)
    /\ msgSigned' = IF signed THEN msgSigned \cup {v} ELSE msgSigned
    /\ UNCHANGED <<msgPc, msgDuty, msgHead, msgRoot, msgSubmitted, msgStatus, msgRet,
                   beaconBlockRoots, aggregateVars, auctionVars, prepareVars, walletVars, scoreVars, restVars>>

\* SubmitReturn that hands the batch to the caller with the error.
SubmitReturnKeepsMessages(batch, err) ==
    IF err # Nil
    THEN [ret |-> [msgs |-> [list |-> batch],
                   err |-> ErrorsWrap(err, "failed to submit sync committee messages")],
          status |-> "failed"]
    ELSE [ret |-> [msgs |-> [list |-> batch], err |-> Nil], status |-> "succeeded"]

\* What Message returns after SubmitSyncCommitteeMessages: [msgs, err], and
\* the status it records.
SubmitReturn(batch, err) ==
    IF err # Nil
    THEN [ret |-> [msgs |-> Nil,
                   err |-> ErrorsWrap(err, "failed to submit sync committee messages")],
          status |-> "failed"]
    ELSE [ret |-> [msgs |-> [list |-> batch], err |-> Nil], status |-> "succeeded"]

\* wg.Wait that does not wait.
WaitReturnsAtOnce(pending) == TRUE

\* wg.Wait returns: every signing goroutine has called wg.Done.
WaitReturns(pending) == pending = {}

\* After wg.Wait: the batch is submitted and Message returns.
MessageSubmit(err) ==
    /\ msgPc = "signing"
    /\ WaitReturns(msgPending)
    /\ msgSubmitted' = Append(msgSubmitted, [msgs |-> msgs, err |-> err])
    /\ LET r == SubmitReturn(msgs, err)
       IN  /\ msgRet' = r.ret
           /\ msgStatus' = r.status
    /\ msgPc' = "done"
    /\ UNCHANGED <<msgDuty, msgHead, msgRoot, msgPending, msgSigned, msgs,
                   beaconBlockRoots, aggregateVars, auctionVars, prepareVars, walletVars, scoreVars, restVars>>

SubmitErrors == {Nil, ErrorsNew("submit")}


\* =================================================== SYNC COMMITTEE AGGREGATOR
\* The selection signature Prepare stored for (validator, slot, subcommittee).
SelectionProof(v, s, sub) == [account |-> v, slot |-> s, subcommittee |-> sub]

\* The validators of vs in ascending order.
RECURSIVE Ascending(_)
Ascending(vs) ==
    IF vs = {} THEN <<>>
    ELSE LET least == CHOOSE v \in vs : \A w \in vs : v <= w
         IN  <<least>> \o Ascending(vs \ {least})

\* duty.ValidatorIndices: validator indices, each once; their order plays no
\* role but in the order of the batch, and the ascending one stands for all.
ValidatorIndexSeqs == {Ascending(vs) : vs \in SUBSET Validators}

Range(seq) == {seq[i] : i \in DOMAIN seq}

\* The duties Aggregate is called with.
AggregatorDuties ==
    UNION {[Slot : Slots, ValidatorIndices : {vis},
            SelectionProofs : [Range(vis) -> SUBSET Subcommittees]] :
           vis \in ValidatorIndexSeqs}

\* The first position from pos on whose validator has selection proofs, or
\* Len + 1: the outer loop skips validators that have none.
RECURSIVE SkipEmpty(_, _)
SkipEmpty(duty, pos) ==
    IF pos > Len(duty.ValidatorIndices) THEN pos
    ELSE IF duty.SelectionProofs[duty.ValidatorIndices[pos]] # {} THEN pos
    ELSE SkipEmpty(duty, pos + 1)

SubsAt(duty, pos) ==
    IF pos > Len(duty.ValidatorIndices) THEN {}
    ELSE duty.SelectionProofs[duty.ValidatorIndices[pos]]

\* SyncCommitteeContribution(ctx, slot, subcommitteeIndex, root), when it
\* gives a contribution.
Contribution(s, sub, root) ==
    [Slot |-> s, SubcommitteeIndex |-> sub, BeaconBlockRoot |-> root]

\* SignedContributionAndProof with the first validator of the duty as aggregator.
SignedContributionAndProofOfFirst(duty, root, v, sub) ==
    [Message |-> [AggregatorIndex |-> duty.ValidatorIndices[1],
                  Contribution |-> Contribution(duty.Slot, sub, root),
                  SelectionProof |-> SelectionProof(duty.ValidatorIndices[1], duty.Slot, sub)],
     Signature |-> [account |-> duty.ValidatorIndices[1]]]

SignedContributionAndProof(duty, root, v, sub) ==
    [Message |-> [AggregatorIndex |-> v,
                  Contribution |-> Contribution(duty.Slot, sub, root),
                  SelectionProof |-> SelectionProof(v, duty.Slot, sub)],
     Signature |-> [account |-> v]]

AggregateInit ==
    /\ beaconBlockRoots = EmptyMap
    /\ aggPc = "idle"
    /\ aggDuty = [Slot |-> 1, ValidatorIndices |-> <<>>, SelectionProofs |-> EmptyMap]
    /\ aggRoot = NilRoot
    /\ aggPairFailed = FALSE
    /\ aggPos = 1
    /\ aggSubsLeft = {}
    /\ signedContributionAndProofs = <<>>
    /\ aggSubmitted = <<>>
    /\ aggStatus = "none"

\* CacheRead that leaves the entry in the cache.
CacheReadKeepsEntry(roots, s) ==
    IF s \in DOMAIN roots
    THEN [exists |-> TRUE, root |-> roots[s], roots |-> roots]
    ELSE [exists |-> FALSE, root |-> NilRoot, roots |-> roots]

\* The critical section of Aggregate for slot s: whether the cache has a
\* root for it, the root, and the cache afterwards.
CacheRead(roots, s) ==
    IF s \in DOMAIN roots
    THEN [exists |-> TRUE, root |-> roots[s], roots |-> MapDelete(roots, s)]
    ELSE [exists |-> FALSE, root |-> NilRoot, roots |-> roots]

\* Aggregate up to the end of the critical section: the root of the slot is
\* taken from the cache and deleted, or the cache has none.
Aggregate(duty) ==
    /\ aggPc \in {"idle", "done"}
    /\ aggDuty' = duty
    /\ signedContributionAndProofs' = <<>>
    /\ aggSubmitted' = <<>>
    /\ aggStatus' = "none"
    /\ aggPairFailed' = FALSE
    /\ LET tmp == CacheRead(beaconBlockRoots, duty.Slot)
       IN  /\ aggRoot' = tmp.root
           /\ beaconBlockRoots' = tmp.roots
           /\ aggPc' = IF tmp.exists THEN "pairs" ELSE "head"
    /\ aggPos' = SkipEmpty(duty, 1)
    /\ aggSubsLeft' = SubsAt(duty, aggPos')
    /\ UNCHANGED <<messageVars, auctionVars, prepareVars, walletVars, scoreVars, restVars>>

\* HeadUnavailable without the check for a nil root.
HeadUnavailableOnErrorOnly(answer) == answer.err # Nil

\* Whether the answer of BeaconBlockRoot(ctx, "head") ends Aggregate: an error,
\* or a nil root.
HeadUnavailable(answer) == answer.err # Nil \/ answer.root = NilRoot

\* The cache had no root: the head root is asked of the beacon node.
AggregateHead(answer) ==
    /\ aggPc = "head"
    /\ IF HeadUnavailable(answer)
       THEN /\ aggStatus' = "failed"
            /\ aggPc' = "done"
            /\ UNCHANGED aggRoot
       ELSE /\ aggRoot' = answer.root
            /\ aggPc' = "pairs"
            /\ UNCHANGED aggStatus
    /\ UNCHANGED <<aggDuty, aggPairFailed, aggPos, aggSubsLeft,
                   signedContributionAndProofs, aggSubmitted, beaconBlockRoots, messageVars, auctionVars, prepareVars, walletVars, scoreVars, restVars>>

\* What the beacon node and the signer do for one pair.
PairAnswers == {"fetchErr", "fetchNil", "signErr", "signed"}

\* PairAborts in which a failed signature does not end Aggregate.
PairAbortsOnFetchOnly(answer) == answer \in {"fetchErr", "fetchNil"}

\* Whether the iteration ends Aggregate: the fetch gave an error or nothing,
\* or the signing failed.
PairAborts(answer) == answer # "signed"

\* One iteration of the inner loop, for the current validator and one of its
\* subcommittees not yet visited (a Go map is ranged over in any order).
AggregatePair(sub, answer) ==
    /\ aggPc = "pairs"
    /\ sub \in aggSubsLeft
    /\ aggPairFailed' = (aggPairFailed \/ answer # "signed")
    /\ IF PairAborts(answer)
       THEN /\ aggStatus' = "failed"
            /\ aggPc' = "done"
            /\ UNCHANGED <<aggPos, aggSubsLeft, signedContributionAndProofs>>
       ELSE /\ signedContributionAndProofs' =
                 Append(signedContributionAndProofs,
                        SignedContributionAndProof(aggDuty, aggRoot,
                            aggDuty.ValidatorIndices[aggPos], sub))
            /\ IF aggSubsLeft = {sub}
               THEN /\ aggPos' = SkipEmpty(aggDuty, aggPos + 1)
                    /\ aggSubsLeft' = SubsAt(aggDuty, aggPos')
               ELSE /\ aggSubsLeft' = aggSubsLeft \ {sub}
                    /\ UNCHANGED aggPos
            /\ UNCHANGED <<aggPc, aggStatus>>
    /\ UNCHANGED <<aggDuty, aggRoot, aggSubmitted, beaconBlockRoots, messageVars, auctionVars, prepareVars, walletVars, scoreVars, restVars>>

\* Both loops have ended: the batch is submitted.
AggregateSubmit(err) ==
    /\ aggPc = "pairs"
    /\ aggPos > Len(aggDuty.ValidatorIndices)
    /\ aggSubmitted' = Append(aggSubmitted,
                              [batch |-> signedContributionAndProofs, err |-> err])
    /\ aggStatus' = IF err # Nil THEN "failed" ELSE "succeeded"
    /\ aggPc' = "done"
    /\ UNCHANGED <<aggDuty, aggRoot, aggPairFailed, aggPos, aggSubsLeft,
                   signedContributionAndProofs, beaconBlockRoots, messageVars, auctionVars, prepareVars, walletVars, scoreVars, restVars>>


\* ========================================== SYNC COMMITTEE MESSENGER, PREPARE
\* The committee positions of a validator: ascending, at most MaxPositions.
PositionSeqs ==
    {Ascending(ps) : ps \in {qs \in SUBSET (0..(syncCommitteeSize - 1)) :
                                Cardinality(qs) \in 1..MaxPositions}}

\* The duties Prepare is called with.
PrepareDuties ==
    UNION {[slot : Slots, validatorIndices : {vis},
            contributionIndices : [Range(vis) -> PositionSeqs]] :
           vis \in ValidatorIndexSeqs}

\* What SignSyncCommitteeSelection gives: an error, or a signature, of which
\* hash is the first eight bytes of its SHA-256 hash read as a number.
SelectionAnswers == {[err |-> TRUE]} \cup [err : {FALSE}, hash : 0..MaxHash]

\* The subcommittees map with an entry for every contribution index.
subcommitteesPerIndex(duty, v) == Range(duty.contributionIndices[v])

\* The subcommittees map Prepare builds for a validator.
subcommittees(duty, v) ==
    {ci \div (syncCommitteeSize \div syncCommitteeSubnetCount) :
        ci \in Range(duty.contributionIndices[v])}

\* The first position from pos on whose validator has subcommittees, or Len + 1.
RECURSIVE PrepareSkip(_, _)
PrepareSkip(duty, pos) ==
    IF pos > Len(duty.validatorIndices) THEN pos
    ELSE IF subcommittees(duty, duty.validatorIndices[pos]) # {} THEN pos
    ELSE PrepareSkip(duty, pos + 1)

PrepareSubsAt(duty, pos) ==
    IF pos > Len(duty.validatorIndices) THEN {}
    ELSE subcommittees(duty, duty.validatorIndices[pos])

\* modulo of isAggregator that is 2 where the code makes it 1.
moduloClampedToTwo(target) ==
    LET m == (syncCommitteeSize \div syncCommitteeSubnetCount) \div target
    IN  IF m < 1 THEN 2 ELSE m

\* modulo of isAggregator
modulo(target) ==
    LET m == (syncCommitteeSize \div syncCommitteeSubnetCount) \div target
    IN  IF m < 1 THEN 1 ELSE m

\* isAggregator, given what the signer answered: [isAggregator, signature, err]
isAggregator(target, answer) ==
    IF answer.err
    THEN [isAggregator |-> FALSE, signature |-> Nil,
          err |-> ErrorsWrap(ErrorsNew("signer"), "failed to sign the slot")]
    ELSE [isAggregator |-> answer.hash % modulo(target) = 0,
          signature |-> answer, err |-> Nil]

\* duty.SetAggregatorSubcommittees
SetAggregatorSubcommittees(assignments, v, subcommittee, sig) ==
    MapSet(assignments, v,
           MapSet(IF v \in DOMAIN assignments THEN assignments[v] ELSE EmptyMap,
                  subcommittee, sig))

\* RecordAggregator that takes back the assignment the duty already has.
RecordAggregatorToggles(assignments, v, subcommittee, r) ==
    IF ~r.isAggregator THEN assignments
    ELSE IF v \in DOMAIN assignments /\ subcommittee \in DOMAIN assignments[v]
    THEN MapSet(assignments, v, MapDelete(assignments[v], subcommittee))
    ELSE SetAggregatorSubcommittees(assignments, v, subcommittee, r.signature)

\* The duty's assignments after isAggregator has returned r without error.
RecordAggregator(assignments, v, subcommittee, r) ==
    IF r.isAggregator
    THEN SetAggregatorSubcommittees(assignments, v, subcommittee, r.signature)
    ELSE assignments

NoDuty == [slot |-> 1, validatorIndices |-> <<>>, contributionIndices |-> EmptyMap]
NoFirst == [assignments |-> EmptyMap, err |-> Nil]

\* The messenger with a duty not yet prepared; target is
\* TARGET_AGGREGATORS_PER_SYNC_SUBCOMMITTEE as New read it.
PrepareInitWith(target) ==
    /\ targetAggregatorsPerSyncCommittee = target
    /\ prepPc = "idle"
    /\ prepDuty = NoDuty
    /\ prepSigner = EmptyMap
    /\ prepCalls = EmptyMap
    /\ aggregatorSubcommittees = EmptyMap
    /\ prepPos = 1
    /\ prepSubsLeft = {}
    /\ prepRuns = 0
    /\ prepFirst = NoFirst
    /\ prepRet = Nil

PrepareInit == PrepareInitWith(1)

\* The start of a run of Prepare on duty.
PrepareStart(duty) ==
    /\ prepPc' = "running"
    /\ prepDuty' = duty
    /\ prepPos' = PrepareSkip(duty, 1)
    /\ prepSubsLeft' = PrepareSubsAt(duty, prepPos')
    /\ prepCalls' = EmptyMap
    /\ prepRet' = Nil
    /\ UNCHANGED <<targetAggregatorsPerSyncCommittee, auctionVars, syncVars, walletVars, scoreVars, restVars>>

\* Prepare is called with a duty that has no assignments yet.
Prepare(duty) ==
    /\ prepPc \in {"idle", "done"}
    /\ PrepareStart(duty)
    /\ prepSigner' = EmptyMap
    /\ aggregatorSubcommittees' = EmptyMap
    /\ prepRuns' = 1
    /\ prepFirst' = NoFirst

\* Prepare is called again with the duty of the call before.
PrepareAgain ==
    /\ prepPc = "done"
    /\ prepRuns < MaxPrepareRuns
    /\ PrepareStart(prepDuty)
    /\ prepRuns' = prepRuns + 1
    /\ UNCHANGED <<prepSigner, aggregatorSubcommittees, prepFirst>>

\* What Prepare has returned, kept after the first run on the duty.
FirstAfter(first, runs, assignments, err) ==
    IF runs = 1 THEN [assignments |-> assignments, err |-> err] ELSE first

\* One iteration of the inner loop of Prepare, for the current validator and
\* one of its subcommittees not yet visited (a Go map is ranged over in any
\* order).  The signer is deterministic: asked again for a pair of the duty,
\* it gives what it gave before.
PrepareSubcommittee(sub, answer) ==
    /\ prepPc = "running"
    /\ sub \in prepSubsLeft
    /\ LET v == prepDuty.validatorIndices[prepPos]
           pair == <<v, sub>>
           r == isAggregator(targetAggregatorsPerSyncCommittee, answer)
       IN  /\ pair \in DOMAIN prepSigner => answer = prepSigner[pair]
           /\ prepSigner' = MapSet(prepSigner, pair, answer)
           /\ prepCalls' = MapSet(prepCalls, pair,
                                  IF pair \in DOMAIN prepCalls
                                  THEN prepCalls[pair] + 1 ELSE 1)
           /\ IF r.err # Nil
              THEN /\ prepRet' = ErrorsWrap(r.err, "failed to calculate if this is an aggregator")
                   /\ prepPc' = "done"
                   /\ prepFirst' = FirstAfter(prepFirst, prepRuns,
                                              aggregatorSubcommittees, prepRet')
                   /\ UNCHANGED <<aggregatorSubcommittees, prepPos, prepSubsLeft>>
              ELSE /\ aggregatorSubcommittees' =
                         RecordAggregator(aggregatorSubcommittees, v, sub, r)
                   /\ IF prepSubsLeft = {sub}
                      THEN /\ prepPos' = PrepareSkip(prepDuty, prepPos + 1)
                           /\ prepSubsLeft' = PrepareSubsAt(prepDuty, prepPos')
                      ELSE /\ prepSubsLeft' = prepSubsLeft \ {sub}
                           /\ UNCHANGED prepPos
                   /\ UNCHANGED <<prepPc, prepRet, prepFirst>>
    /\ UNCHANGED <<targetAggregatorsPerSyncCommittee, prepDuty, prepRuns,
                   auctionVars, syncVars, walletVars, scoreVars, restVars>>

\* Both loops have ended: Prepare returns nil.
PrepareReturn ==
    /\ prepPc = "running"
    /\ prepPos > Len(prepDuty.validatorIndices)
    /\ prepRet' = Nil
    /\ prepPc' = "done"
    /\ prepFirst' = FirstAfter(prepFirst, prepRuns, aggregatorSubcommittees, Nil)
    /\ UNCHANGED <<targetAggregatorsPerSyncCommittee, prepDuty, prepSigner, prepCalls,
                   aggregatorSubcommittees, prepPos, prepSubsLeft, prepRuns,
                   auctionVars, syncVars, walletVars, scoreVars, restVars>>


\* ================================================== WALLET ACCOUNT MANAGER
PubKeys == 1..MaxPubKey
\* The two goroutines that use the accounts: the duty evaluation and Refresh.
Unlocked == [writer |-> FALSE, readers |-> {}]
NoArg == [pubkey |-> 1, indices |-> {}, current |-> FALSE]
\* The account of a public key; a validator's index stands for its key.
Account(pubkey) == [account |-> pubkey]
\* s.accounts[pubkey]: the account, or nil
AccountOf(accts, pubkey) == IF pubkey \in accts THEN Account(pubkey) ELSE Nil

\* The account manager as New leaves it, with the accounts it has loaded.
WalletInitWith(loaded) ==
    /\ accounts = loaded
    /\ mutex = Unlocked
    /\ refreshPc = "idle"
    /\ refreshNew = {}
    /\ refreshKeys = loaded
    /\ readPc = "idle"
    /\ readOp = "none"
    /\ readArg = NoArg
    /\ readKeys = {}
    /\ readLeft = {}
    /\ readOut = EmptyMap

WalletInit == WalletInitWith({})

readVars == <<readPc, readOp, readArg, readKeys, readLeft, readOut>>
notWalletVars == <<auctionVars, syncVars, prepareVars, scoreVars, restVars>>

\* Refresh, refreshAccounts up to the lock: found is the accounts of the wallets
\* that are wanted and could be unlocked.
refreshAccounts(found) ==
    /\ refreshPc = "idle"
    /\ refreshNew' = found
    /\ refreshPc' = "lock"
    /\ UNCHANGED <<accounts, mutex, refreshKeys, readVars, notWalletVars>>

\* s.mutex.Lock()
refreshAccountsLock ==
    /\ refreshPc = "lock"
    /\ ~mutex.writer
    /\ mutex.readers = {}
    /\ mutex' = [mutex EXCEPT !.writer = TRUE]
    /\ refreshPc' = "write"
    /\ UNCHANGED <<accounts, refreshNew, refreshKeys, readVars, notWalletVars>>

\* s.accounts = accounts
refreshAccountsWrite ==
    /\ refreshPc = "write"
    /\ accounts' = refreshNew
    /\ refreshPc' = "unlock"
    /\ UNCHANGED <<mutex, refreshNew, refreshKeys, readVars, notWalletVars>>

\* s.mutex.Unlock()
refreshAccountsUnlock ==
    /\ refreshPc = "unlock"
    /\ mutex' = [mutex EXCEPT !.writer = FALSE]
    /\ refreshPc' = "validators"
    /\ UNCHANGED <<accounts, refreshNew, refreshKeys, readVars, notWalletVars>>

\* refreshValidators: the keys of s.accounts are read and given to the
\* validators manager, whose error Refresh only logs.
refreshValidators ==
    /\ refreshPc = "validators"
    /\ refreshKeys' = accounts
    /\ refreshPc' = "idle"
    /\ UNCHANGED <<accounts, mutex, refreshNew, readVars, notWalletVars>>

\* A call of the duty evaluation starts.
ReadStart(op, arg, at) ==
    /\ readOp' = op
    /\ readArg' = arg
    /\ readPc' = at
    /\ readKeys' = {}
    /\ readLeft' = {}
    /\ readOut' = EmptyMap
    /\ UNCHANGED <<accounts, mutex, refreshPc, refreshNew, refreshKeys, notWalletVars>>

\* AccountByPublicKey is called.
AccountByPublicKey(pubkey) ==
    /\ readPc \in {"idle", "done", "panicked"}
    /\ ReadStart("AccountByPublicKey", [NoArg EXCEPT !.pubkey = pubkey], "rlock")

\* s.mutex.RLock()
AccountRLock ==
    /\ readPc = "rlock"
    /\ ~mutex.writer
    /\ mutex' = [mutex EXCEPT !.readers = @ \cup {"duty"}]
    /\ readPc' = "lookup"
    /\ UNCHANGED <<accounts, refreshPc, refreshNew, refreshKeys,
                   readOp, readArg, readKeys, readLeft, readOut, notWalletVars>>

\* account, exists := s.accounts[pubkey]
AccountLookup ==
    /\ readPc = "lookup"
    /\ readOut' = MapSet(EmptyMap, readArg.pubkey, AccountOf(accounts, readArg.pubkey))
    /\ readPc' = "runlock"
    /\ UNCHANGED <<accounts, mutex, refreshPc, refreshNew, refreshKeys,
                   readOp, readArg, readKeys, readLeft, notWalletVars>>

\* s.mutex.RUnlock(), and the return: the account, or "not found".
AccountRUnlock ==
    /\ readPc = "runlock"
    /\ mutex' = [mutex EXCEPT !.readers = @ \ {"duty"}]
    /\ readPc' = "done"
    /\ UNCHANGED <<accounts, refreshPc, refreshNew, refreshKeys,
                   readOp, readArg, readKeys, readLeft, readOut, notWalletVars>>

\* ValidatingAccountsForEpoch is called; current tells whether the epoch is
\* the current one.
ValidatingAccountsForEpoch(current) ==
    /\ readPc \in {"idle", "done", "panicked"}
    /\ ReadStart("ValidatingAccountsForEpoch", [NoArg EXCEPT !.current = current], "keys")

\* ValidatingAccountsForEpochByIndex is called.
ValidatingAccountsForEpochByIndex(indices) ==
    /\ readPc \in {"idle", "done", "panicked"}
    /\ ReadStart("ValidatingAccountsForEpochByIndex",
                 [NoArg EXCEPT !.indices = indices], "keys")

\* for pubKey := range s.accounts { pubKeys = append(pubKeys, pubKey) }
ValidatingKeys ==
    /\ readPc = "keys"
    /\ readKeys' = accounts
    /\ readPc' = "validators"
    /\ UNCHANGED <<accounts, mutex, refreshPc, refreshNew, refreshKeys,
                   readOp, readArg, readLeft, readOut, notWalletVars>>

\* ValidatorsByPubKey(ctx, pubKeys): active is those of the validators it
\* gives whose state is active in the epoch; the loop passes the others by,
\* and those ValidatingAccountsForEpochByIndex was not asked for.
ValidatorsByPubKey(active) ==
    /\ readPc = "validators"
    /\ active \subseteq readKeys
    /\ readLeft' = IF readOp = "ValidatingAccountsForEpochByIndex"
                   THEN active \cap readArg.indices
                   ELSE active
    /\ readPc' = "visit"
    /\ UNCHANGED <<accounts, mutex, refreshPc, refreshNew, refreshKeys,
                   readOp, readArg, readKeys, readOut, notWalletVars>>

\* One iteration of the loop over the validators, for an active one:
\* s.accounts[validator.PublicKey] is read.  ValidatingAccountsForEpoch calls
\* account.Name(), which panics on a nil account;
\* ValidatingAccountsForEpochByIndex stores what it has read.
ValidatingVisit(v) ==
    /\ readPc = "visit"
    /\ v \in readLeft
    /\ LET account == AccountOf(accounts, v)
       IN  IF readOp = "ValidatingAccountsForEpoch" /\ account = Nil
           THEN /\ readPc' = "panicked"
                /\ UNCHANGED <<readLeft, readOut>>
           ELSE /\ readOut' = MapSet(readOut, v, account)
                /\ readLeft' = readLeft \ {v}
                /\ UNCHANGED readPc
    /\ UNCHANGED <<accounts, mutex, refreshPc, refreshNew, refreshKeys,
                   readOp, readArg, readKeys, notWalletVars>>

\* The loop has ended.  For the current epoch ValidatingAccountsForEpoch goes
\* on to the metrics.
ValidatingVisited ==
    /\ readPc = "visit"
    /\ readLeft = {}
    /\ readPc' = IF readOp = "ValidatingAccountsForEpoch" /\ readArg.current
                 THEN "count" ELSE "done"
    /\ UNCHANGED <<accounts, mutex, refreshPc, refreshNew, refreshKeys,
                   readOp, readArg, readKeys, readLeft, readOut, notWalletVars>>

\* len(s.accounts) is read for the metric of the accounts in unknown state,
\* and ValidatingAccountsForEpoch returns.
ValidatingCount ==
    /\ readPc = "count"
    /\ readPc' = "done"
    /\ UNCHANGED <<accounts, mutex, refreshPc, refreshNew, refreshKeys,
                   readOp, readArg, readKeys, readLeft, readOut, notWalletVars>>

\* ======================================================= PROPOSAL SCORE
\* A score is a float64 of the code; the model keeps it as an exact fraction
\* in lowest terms.
RECURSIVE GCD(_, _)
GCD(a, b) == IF b = 0 THEN a ELSE GCD(b, a % b)
Rat(num, den) == LET g == GCD(num, den)
                 IN  IF num = 0 THEN [num |-> 0, den |-> 1]
                     ELSE [num |-> num \div g, den |-> den \div g]
Whole(n) == Rat(n, 1)
RatAdd(x, y) == Rat(x.num * y.den + y.num * x.den, x.den * y.den)
RatTimes(x, n) == Rat(x.num * n, x.den)
RatOver(x, n) == Rat(x.num, x.den * n)

\* aggregationBits(set, total): the first set bits of a list of total bits
aggregationBits(set, total) == {i \in 0..(total - 1) : i < set}
\* specificAggregationBits(set, total): the bits at the positions of set
specificAggregationBits(set, total) == set \cap 0..(total - 1)

Attestation(bits, attSlot) == [AggregationBits |-> bits, Slot |-> attSlot]
AttesterSlashing(indices1, indices2) ==
    [Attestation1 |-> indices1, Attestation2 |-> indices2]
\* &phase0.BeaconBlock{}: no slot and no body
EmptyBlock == [Slot |-> 0, Body |-> Nil]
BeaconBlock(blockSlot, attestations, attesterSlashings, proposerSlashings) ==
    [Slot |-> blockSlot,
     Body |-> [Attestations |-> attestations,
               AttesterSlashings |-> attesterSlashings,
               ProposerSlashings |-> proposerSlashings]]

\* The blocks of the table of TestScore.
SingleAttestationBlock ==
    BeaconBlock(12345, <<Attestation(aggregationBits(1, 128), 12344)>>, <<>>, 0)
SingleAttestationDistance2Block ==
    BeaconBlock(12345, <<Attestation(aggregationBits(1, 128), 12343)>>, <<>>, 0)
TwoAttestationsBlock ==
    BeaconBlock(12345, <<Attestation(aggregationBits(2, 128), 12344),
                         Attestation(aggregationBits(1, 128), 12341)>>, <<>>, 0)
AttesterSlashingBlock ==
    BeaconBlock(12345, <<Attestation(aggregationBits(50, 128), 12344)>>,
                <<AttesterSlashing({1, 2, 3}, {2, 3, 4})>>, 0)
DuplicateAttestationsBlock ==
    BeaconBlock(12345, <<Attestation(specificAggregationBits({1, 2, 3}, 128), 12344),
                         Attestation(specificAggregationBits({2, 3, 4}, 128), 12344)>>,
                <<>>, 0)
FullBlock ==
    BeaconBlock(12345, <<Attestation(aggregationBits(50, 128), 12344)>>,
                <<AttesterSlashing({1, 2, 3}, {2, 3, 4})>>, 1)

\* The table with the score of every parent distance taken from distance 1.
testsWithoutParentDistance ==
    <<[name |-> "Nil", block |-> Nil, parentSlot |-> 1, score |-> Whole(0)],
      [name |-> "Empty", block |-> EmptyBlock, parentSlot |-> 1, score |-> Whole(0)],
      [name |-> "SingleAttestation", block |-> SingleAttestationBlock,
       parentSlot |-> 12344, score |-> Whole(1)],
      [name |-> "SingleAttestationParentRootDistance2", block |-> SingleAttestationBlock,
       parentSlot |-> 12343, score |-> Whole(1)],
      [name |-> "SingleAttestationDistance2", block |-> SingleAttestationDistance2Block,
       parentSlot |-> 12344, score |-> Rat(7, 8)],
      [name |-> "TwoAttestations", block |-> TwoAttestationsBlock,
       parentSlot |-> 12344, score |-> Rat(45, 16)],
      [name |-> "AttesterSlashing", block |-> AttesterSlashingBlock,
       parentSlot |-> 12344, score |-> Whole(1450)],
      [name |-> "DuplicateAttestations", block |-> DuplicateAttestationsBlock,
       parentSlot |-> 12344, score |-> Whole(4)],
      [name |-> "Full", block |-> FullBlock, parentSlot |-> 12344, score |-> Whole(2150)],
      [name |-> "FullParentRootDistance2", block |-> FullBlock,
       parentSlot |-> 12343, score |-> Whole(2150)],
      [name |-> "FullParentRootDistance4", block |-> FullBlock,
       parentSlot |-> 12341, score |-> Whole(2150)]>>
\* The table of TestScore: the block, the parent slot and the score expected.
tests ==
    <<[name |-> "Nil", block |-> Nil, parentSlot |-> 1, score |-> Whole(0)],
      [name |-> "Empty", block |-> EmptyBlock, parentSlot |-> 1, score |-> Whole(0)],
      [name |-> "SingleAttestation", block |-> SingleAttestationBlock,
       parentSlot |-> 12344, score |-> Whole(1)],
      [name |-> "SingleAttestationParentRootDistance2", block |-> SingleAttestationBlock,
       parentSlot |-> 12343, score |-> Rat(1, 2)],
      [name |-> "SingleAttestationDistance2", block |-> SingleAttestationDistance2Block,
       parentSlot |-> 12344, score |-> Rat(7, 8)],
      [name |-> "TwoAttestations", block |-> TwoAttestationsBlock,
       parentSlot |-> 12344, score |-> Rat(45, 16)],
      [name |-> "AttesterSlashing", block |-> AttesterSlashingBlock,
       parentSlot |-> 12344, score |-> Whole(1450)],
      [name |-> "DuplicateAttestations", block |-> DuplicateAttestationsBlock,
       parentSlot |-> 12344, score |-> Whole(4)],
      [name |-> "Full", block |-> FullBlock, parentSlot |-> 12344, score |-> Whole(2150)],
      [name |-> "FullParentRootDistance2", block |-> FullBlock,
       parentSlot |-> 12343, score |-> Whole(1075)],
      [name |-> "FullParentRootDistance4", block |-> FullBlock,
       parentSlot |-> 12341, score |-> Rat(1075, 2)]>>
TestBlocks == {tests[i].block : i \in DOMAIN tests}
\* The slot of the blocks of the table, and the slots of their attestations.
BlockSlot == SingleAttestationBlock.Slot
AttestationSlots ==
    UNION {{b.Body.Attestations[i].Slot : i \in DOMAIN b.Body.Attestations} :
           b \in {x \in TestBlocks : x # Nil /\ x.Body # Nil}}

\* The weight of a slashing, in attestations.
slashingWeight == 700
\* The weight of a vote included inclusionDistance slots after its slot:
\* 0.75 + 0.25 / inclusionDistance
VoteWeight(inclusionDistance) == Rat(3 * inclusionDistance + 1, 4 * inclusionDistance)

\* The score of the attestations from the i-th on; attested is, for every
\* slot, the votes of the attestations before, which are not counted again.
RECURSIVE AttestationScore(_, _, _, _)
AttestationScore(blockSlot, attestations, i, attested) ==
    IF i > Len(attestations) THEN Whole(0)
    ELSE LET attestation == attestations[i]
             seen == IF attestation.Slot \in DOMAIN attested
                     THEN attested[attestation.Slot] ELSE {}
             votes == Cardinality(attestation.AggregationBits \ seen)
             inclusionDistance == blockSlot - attestation.Slot
         IN  RatAdd(RatTimes(VoteWeight(inclusionDistance), votes),
                    AttestationScore(blockSlot, attestations, i + 1,
                                     MapSet(attested, attestation.Slot,
                                            seen \cup attestation.AggregationBits)))

\* The number of indices the two attestations of the slashings share.
RECURSIVE IndicesSlashed(_, _)
IndicesSlashed(attesterSlashings, i) ==
    IF i > Len(attesterSlashings) THEN 0
    ELSE Cardinality(attesterSlashings[i].Attestation1
                     \cap attesterSlashings[i].Attestation2)
         + IndicesSlashed(attesterSlashings, i + 1)

\* scoreBeaconBlockProposal(ctx, name, parentSlot, blockProposal)
ScoreOf(parentSlot, blockProposal) ==
    IF blockProposal = Nil THEN Whole(0)
    ELSE IF blockProposal.Body = Nil THEN Whole(0)
    ELSE LET body == blockProposal.Body
             attestationScore ==
                 AttestationScore(blockProposal.Slot, body.Attestations, 1, EmptyMap)
             proposerSlashingScore == Whole(slashingWeight * body.ProposerSlashings)
             attesterSlashingScore ==
                 Whole(slashingWeight * IndicesSlashed(body.AttesterSlashings, 1))
             parentDistance == blockProposal.Slot - parentSlot
         IN  RatOver(RatAdd(attestationScore,
                            RatAdd(proposerSlashingScore, attesterSlashingScore)),
                     parentDistance)

\* The block proposals scored: those of the table, and small ones.
AggregationBitsSets == SUBSET (1..MaxBit)
AttestationChoices ==
    {Attestation(bits, attSlot) : bits \in AggregationBitsSets, attSlot \in AttestationSlots}
AttestationLists ==
    UNION {[1..n -> AttestationChoices] : n \in 0..MaxAttestations}
AttesterSlashingLists ==
    {<<>>, <<AttesterSlashing({1, 2, 3}, {2, 3, 4})>>, <<AttesterSlashing({1}, {2})>>}
Proposals ==
    TestBlocks \cup
    {BeaconBlock(BlockSlot, attestations, attesterSlashings, proposerSlashings) :
        attestations \in AttestationLists,
        attesterSlashings \in AttesterSlashingLists,
        proposerSlashings \in 0..MaxProposerSlashings}
HasBody(blockProposal) == blockProposal # Nil /\ blockProposal.Body # Nil
\* The parent slots a proposal is scored with: the parent is before the block.
ParentSlots(blockProposal) ==
    IF HasBody(blockProposal)
    THEN {blockProposal.Slot - d : d \in 1..MaxParentDistance}
    ELSE 1..MaxParentDistance

ScoreInitWith(blockProposal) ==
    /\ proposal = blockProposal
    /\ scores = EmptyMap
ScoreInit == ScoreInitWith(Nil)

notScoreVars == <<auctionVars, syncVars, prepareVars, walletVars, restVars>>

\* One call of scoreBeaconBlockProposal for the proposal.
scoreBeaconBlockProposal(parentSlot) ==
    /\ parentSlot \notin DOMAIN scores
    /\ scores' = MapSet(scores, parentSlot, ScoreOf(parentSlot, proposal))
    /\ UNCHANGED <<proposal, notScoreVars>>

\* ================================ THE ROOT CACHE, SEVERAL CALLS OF AGGREGATE
AggregateCalls == 1..MaxAggregateCalls
NoCall == [pc |-> "idle", slot |-> 1, root |-> NilRoot, from |-> "none",
           status |-> "none"]

CacheInit ==
    /\ calls = [a \in AggregateCalls |-> NoCall]
    /\ stored = [s \in Slots |-> 0]
    /\ taken = [s \in Slots |-> 0]


notCacheVars == <<fetchVars, constVars, auctionVars, messageVars, aggregateVars, prepareVars,
                  walletVars, scoreVars>>

\* SetBeaconBlockRoot(s, root), called by the messenger.
CacheSetBeaconBlockRoot(s, root) ==
    /\ stored[s] < MaxStores
    /\ beaconBlockRoots' = SetBeaconBlockRoot(beaconBlockRoots, s, root)
    /\ stored' = [stored EXCEPT ![s] = @ + 1]
    /\ UNCHANGED <<calls, taken, notCacheVars>>

\* Call a of Aggregate for a duty of slot s, up to the end of the critical
\* section.
CacheAggregate(a, s) ==
    /\ calls[a].pc \in {"idle", "done"}
    /\ LET tmp == CacheRead(beaconBlockRoots, s)
       IN  /\ beaconBlockRoots' = tmp.roots
           /\ calls' = [calls EXCEPT ![a] =
                            [pc |-> IF tmp.exists THEN "pairs" ELSE "head",
                             slot |-> s, root |-> tmp.root,
                             from |-> IF tmp.exists THEN "cache" ELSE "none",
                             status |-> "none"]]
           /\ taken' = IF tmp.exists THEN [taken EXCEPT ![s] = @ + 1] ELSE taken
    /\ UNCHANGED <<stored, notCacheVars>>

\* Call a found no root in the cache and asks the beacon node for the head.
CacheAggregateHead(a, answer) ==
    /\ calls[a].pc = "head"
    /\ calls' = [calls EXCEPT ![a] =
                    IF HeadUnavailable(answer)
                    THEN [@ EXCEPT !.pc = "done", !.status = "failed"]
                    ELSE [@ EXCEPT !.pc = "pairs", !.root = answer.root,
                                   !.from = "head"]]
    /\ UNCHANGED <<beaconBlockRoots, stored, taken, notCacheVars>>

\* The loops and the submission of call a, which succeed or fail.
CacheAggregateEnd(a, status) ==
    /\ calls[a].pc = "pairs"
    /\ calls' = [calls EXCEPT ![a] = [@ EXCEPT !.pc = "done", !.status = status]]
    /\ UNCHANGED <<beaconBlockRoots, stored, taken, notCacheVars>>

\* ============================================ WALLET, FETCHACCOUNTSFORWALLET
\* The accounts of the wallet.
WalletAccounts == 1..MaxWalletAccounts

FetchInitWith(n) ==
    /\ processConcurrency = n
    /\ fetchPc = "idle"
    /\ fetchLeft = {}
    /\ fetchTasks = [a \in WalletAccounts |-> "none"]
    /\ sem = 0
    /\ wg = 0
    /\ fetchCtx = "live"
    /\ fetched = {}

FetchInit == FetchInitWith(1)

notFetchVars == <<cacheVars, constVars, auctionVars, syncVars, prepareVars, walletVars, scoreVars>>

\* A semaphore that lets every task in.
SemAcquireAlways(cur, n, size) == TRUE

\* semaphore.Weighted.Acquire(ctx, n) can take n of a semaphore of the given
\* size of which cur is taken.
SemAcquire(cur, n, size) == cur + n <= size

\* sync.WaitGroup.Wait returns
WaitGroupWait(counter) == counter = 0

\* fetchAccountsForWallet is called for a wallet with the given accounts: a new
\* semaphore and wait group.
fetchAccountsForWallet(found) ==
    /\ fetchPc \in {"idle", "returned"}
    /\ fetchPc' = "loop"
    /\ fetchLeft' = found
    /\ fetchTasks' = [a \in WalletAccounts |-> "none"]
    /\ sem' = 0
    /\ wg' = 0
    /\ fetchCtx' = "live"
    /\ fetched' = {}
    /\ UNCHANGED <<processConcurrency, notFetchVars>>

\* for account := range wallet.Accounts(ctx): wg.Add(1) and the goroutine.
FetchLaunch(a) ==
    /\ fetchPc = "loop"
    /\ a \in fetchLeft
    /\ fetchLeft' = fetchLeft \ {a}
    /\ wg' = wg + 1
    /\ fetchTasks' = [fetchTasks EXCEPT ![a] = "launched"]
    /\ UNCHANGED <<processConcurrency, fetchPc, sem, fetchCtx, fetched, notFetchVars>>

\* The loop has reached the end of the wallet's accounts.
FetchLoopEnd ==
    /\ fetchPc = "loop"
    /\ fetchLeft = {}
    /\ fetchPc' = "wait"
    /\ UNCHANGED <<processConcurrency, fetchLeft, fetchTasks, sem, wg, fetchCtx,
                   fetched, notFetchVars>>

\* ctx is done while the accounts are fetched.
FetchCtxDone ==
    /\ fetchPc \in {"loop", "wait"}
    /\ fetchCtx = "live"
    /\ fetchCtx' = "done"
    /\ UNCHANGED <<processConcurrency, fetchPc, fetchLeft, fetchTasks, sem, wg,
                   fetched, notFetchVars>>

\* sem.Acquire(ctx, 1) returns nil.
TaskAcquire(a) ==
    /\ fetchTasks[a] = "launched"
    /\ SemAcquire(sem, 1, processConcurrency)
    /\ sem' = sem + 1
    /\ fetchTasks' = [fetchTasks EXCEPT ![a] = "acquired"]
    /\ UNCHANGED <<processConcurrency, fetchPc, fetchLeft, wg, fetchCtx, fetched,
                   notFetchVars>>

\* sem.Acquire(ctx, 1) returns the error of ctx: the task returns, wg.Done().
TaskAcquireFails(a) ==
    /\ fetchTasks[a] = "launched"
    /\ fetchCtx = "done"
    /\ fetchTasks' = [fetchTasks EXCEPT ![a] = "finished"]
    /\ wg' = wg - 1
    /\ UNCHANGED <<processConcurrency, fetchPc, fetchLeft, sem, fetchCtx, fetched,
                   notFetchVars>>

\* The task with the semaphore: the account's name matches no path
\* ("unwanted"), no passphrase unlocks it ("locked"), or it is put in the map
\* ("stored"); then sem.Release(1) and wg.Done(), which are deferred.
TaskEnd(a, outcome) ==
    /\ fetchTasks[a] = "acquired"
    /\ fetched' = IF outcome = "stored" THEN fetched \cup {a} ELSE fetched
    /\ sem' = sem - 1
    /\ wg' = wg - 1
    /\ fetchTasks' = [fetchTasks EXCEPT ![a] = "finished"]
    /\ UNCHANGED <<processConcurrency, fetchPc, fetchLeft, fetchCtx, notFetchVars>>

\* wg.Wait() returns, and fetchAccountsForWallet with it.
FetchReturn ==
    /\ fetchPc = "wait"
    /\ WaitGroupWait(wg)
    /\ fetchPc' = "returned"
    /\ UNCHANGED <<processConcurrency, fetchLeft, fetchTasks, sem, wg, fetchCtx,
                   fetched, notFetchVars>>

\* ================================ MESSENGER, THE CONSTANTS OF THE CHAIN SPEC
\* The values specUint64 may give New for a constant.
SpecValues == 0..MaxSpecValue

\* A computation that has not been made, and one that ended in the runtime
\* panic of an integer division by zero.
NotComputed == [op |-> "none", panic |-> FALSE, value |-> 0]
Panicked(op) == [op |-> op, panic |-> TRUE, value |-> 0]

\* New: the service with SYNC_COMMITTEE_SIZE, SYNC_COMMITTEE_SUBNET_COUNT and
\* TARGET_AGGREGATORS_PER_SYNC_SUBCOMMITTEE as the specification gives them.
ConstInitWith(size, count, target) ==
    /\ specConstants = [size |-> size, count |-> count, target |-> target]
    /\ computed = NotComputed

ConstInit == ConstInitWith(syncCommitteeSize, syncCommitteeSubnetCount, 1)

notConstVars == <<cacheVars, fetchVars, auctionVars, syncVars, prepareVars,
                  walletVars, scoreVars>>

\* uint64(contributionIndex) / (s.syncCommitteeSize / s.syncCommitteeSubnetCount)
subcommittee(c, contributionIndex) ==
    IF c.count = 0 THEN Panicked("subcommittee")
    ELSE IF c.size \div c.count = 0 THEN Panicked("subcommittee")
    ELSE [op |-> "subcommittee", panic |-> FALSE,
          value |-> contributionIndex \div (c.size \div c.count)]

\* modulo of isAggregator, for the constants c
moduloOf(c) ==
    IF c.count = 0 THEN Panicked("modulo")
    ELSE IF c.target = 0 THEN Panicked("modulo")
    ELSE LET m == (c.size \div c.count) \div c.target
         IN  [op |-> "modulo", panic |-> FALSE, value |-> IF m < 1 THEN 1 ELSE m]

\* Prepare computes the subcommittee of a contribution index of the duty.
PrepareSubcommitteeOf(contributionIndex) ==
    /\ computed' = subcommittee(specConstants, contributionIndex)
    /\ UNCHANGED <<specConstants, notConstVars>>

\* isAggregator computes modulo.
IsAggregatorModulo ==
    /\ computed' = moduloOf(specConstants)
    /\ UNCHANGED <<specConstants, notConstVars>>

RestInit == CacheInit /\ FetchInit /\ ConstInit

\* ========================================================== SPECIFICATIONS
Init == AuctionInit /\ MessageInit /\ AggregateInit /\ PrepareInit
        /\ WalletInit /\ ScoreInit /\ RestInit

\* The block auction.
Next ==
    \/ \E s \in Slots, config \in {"noAccount", "configErr", "ok"},
          n \in 0..MaxRelays :
          \E launch \in SUBSET (1..n) : AuctionBlock(s, config, n, launch)
    \/ \E r \in Relays : builderBid(r)
    \/ SoftDeadline
    \/ HardDeadline
    \/ CallerCancel
    \/ Loop1Resp
    \/ Loop1Err
    \/ Loop1Soft
    \/ Loop1Exit
    \/ Loop2Resp
    \/ Loop2Err
    \/ Loop2Hard
    \/ Loop2Exit
Spec == Init /\ [][Next]_vars

\* The goroutine that runs bestBuilderBid: the cases of its two selects and the
\* ends of its two loops.
Supervisor ==
    \/ Loop1Resp
    \/ Loop1Err
    \/ Loop1Soft
    \/ Loop1Exit
    \/ Loop2Resp
    \/ Loop2Err
    \/ Loop2Hard
    \/ Loop2Exit

\* The block auction with a supervisor that takes a step whenever it can; the
\* relay tasks and the deadlines are under no obligation.
SpecLive == Init /\ [][Next]_vars /\ WF_vars(Supervisor)

\* The relay caller in the first auction of the process, before any deadline:
\* every relay of the proposer configuration has a task; what the first relay
\* answers and how it is configured is kept with its task.
FirstAuction(s) == pc = "idle" /\ AuctionBlock(s, "ok", MaxRelays, Relays)
NextBid ==
    \/ \E s \in Slots : FirstAuction(s)
    \/ /\ tasks[1] = Running
       /\ \E answer \in Answers, relayConfig \in RelayConfigs :
             builderBidOf(1, answer, relayConfig)
    \/ \E r \in Relays \ {1} : builderBid(r)
    \/ Loop1Resp
    \/ Loop1Err
    \/ Loop1Exit
    \/ Loop2Exit
SpecBid == Init /\ [][NextBid]_vars

\* The sync committee messenger and aggregator, running side by side.
NextSync ==
    \/ \E duty \in MessengerDuties, answer \in RootAnswers : Message(duty, answer)
    \/ \E v \in Validators, signed \in BOOLEAN : MessageSign(v, signed)
    \/ \E err \in SubmitErrors : MessageSubmit(err)
    \/ \E duty \in AggregatorDuties : Aggregate(duty)
    \/ \E answer \in RootAnswers : AggregateHead(answer)
    \/ \E sub \in Subcommittees, answer \in PairAnswers : AggregatePair(sub, answer)
    \/ \E err \in SubmitErrors : AggregateSubmit(err)
SpecSync == Init /\ [][NextSync]_vars

\* The sync committee messenger alone.  The aggregator's steps leave the
\* messenger's variables as they are, so what holds here of the messenger's
\* variables holds of them in SpecSync.
NextMessage ==
    \/ \E duty \in MessengerDuties, answer \in RootAnswers : Message(duty, answer)
    \/ \E v \in Validators, signed \in BOOLEAN : MessageSign(v, signed)
    \/ \E err \in SubmitErrors : MessageSubmit(err)
SpecMessage == Init /\ [][NextMessage]_vars

\* Prepare of the messenger, for every TARGET_AGGREGATORS_PER_SYNC_SUBCOMMITTEE
\* up to MaxTarget.
InitPrepare ==
    /\ AuctionInit /\ MessageInit /\ AggregateInit /\ WalletInit /\ ScoreInit
    /\ RestInit
    /\ \E target \in 1..MaxTarget : PrepareInitWith(target)
NextPrepare ==
    \/ \E duty \in PrepareDuties : Prepare(duty)
    \/ PrepareAgain
    \/ \E sub \in 0..(syncCommitteeSubnetCount - 1), answer \in SelectionAnswers :
          PrepareSubcommittee(sub, answer)
    \/ PrepareReturn
SpecPrepare == InitPrepare /\ [][NextPrepare]_vars

\* The wallet account manager: Refresh beside a call of the duty evaluation,
\* for every set of accounts New may have loaded.
InitWallet ==
    /\ AuctionInit /\ MessageInit /\ AggregateInit /\ PrepareInit /\ ScoreInit
    /\ RestInit
    /\ \E loaded \in SUBSET PubKeys : WalletInitWith(loaded)
NextWallet ==
    \/ \E found \in SUBSET PubKeys : refreshAccounts(found)
    \/ refreshAccountsLock
    \/ refreshAccountsWrite
    \/ refreshAccountsUnlock
    \/ refreshValidators
    \/ \E pubkey \in PubKeys : AccountByPublicKey(pubkey)
    \/ AccountRLock
    \/ AccountLookup
    \/ AccountRUnlock
    \/ \E current \in BOOLEAN : ValidatingAccountsForEpoch(current)
    \/ \E indices \in SUBSET PubKeys : ValidatingAccountsForEpochByIndex(indices)
    \/ ValidatingKeys
    \/ \E active \in SUBSET PubKeys : ValidatorsByPubKey(active)
    \/ \E v \in PubKeys : ValidatingVisit(v)
    \/ ValidatingVisited
    \/ ValidatingCount
SpecWallet == InitWallet /\ [][NextWallet]_vars

\* The score: one block proposal, scored with any of its parent slots.
InitScore ==
    /\ AuctionInit /\ MessageInit /\ AggregateInit /\ PrepareInit /\ WalletInit
    /\ RestInit
    /\ \E blockProposal \in Proposals : ScoreInitWith(blockProposal)
NextScore ==
    \E parentSlot \in ParentSlots(proposal) : scoreBeaconBlockProposal(parentSlot)
SpecScore == InitScore /\ [][NextScore]_vars

\* The root cache: the messenger's stores beside several calls of Aggregate.
NextCache ==
    \/ \E s \in Slots, root \in Roots : CacheSetBeaconBlockRoot(s, root)
    \/ \E a \in AggregateCalls, s \in Slots : CacheAggregate(a, s)
    \/ \E a \in AggregateCalls, answer \in RootAnswers : CacheAggregateHead(a, answer)
    \/ \E a \in AggregateCalls, status \in {"succeeded", "failed"} :
          CacheAggregateEnd(a, status)
SpecCache == Init /\ [][NextCache]_vars

\* fetchAccountsForWallet and its tasks
InitFetch ==
    /\ AuctionInit /\ MessageInit /\ AggregateInit /\ PrepareInit
    /\ WalletInit /\ ScoreInit /\ CacheInit /\ ConstInit
    /\ \E n \in 1..MaxConcurrency : FetchInitWith(n)
NextFetch ==
    \/ \E found \in SUBSET WalletAccounts : fetchAccountsForWallet(found)
    \/ \E a \in WalletAccounts : FetchLaunch(a)
    \/ FetchLoopEnd
    \/ FetchCtxDone
    \/ \E a \in WalletAccounts : TaskAcquire(a)
    \/ \E a \in WalletAccounts : TaskAcquireFails(a)
    \/ \E a \in WalletAccounts, outcome \in {"unwanted", "locked", "stored"} :
          TaskEnd(a, outcome)
    \/ FetchReturn
SpecFetch == InitFetch /\ [][NextFetch]_vars

\* The messenger's arithmetic, for every value of the three constants up to
\* MaxSpecValue.
InitConstants ==
    /\ AuctionInit /\ MessageInit /\ AggregateInit /\ PrepareInit
    /\ WalletInit /\ ScoreInit /\ CacheInit /\ FetchInit
    /\ \E size \in SpecValues, count \in SpecValues, target \in SpecValues :
          ConstInitWith(size, count, target)
NextConstants ==
    \/ \E contributionIndex \in 0..MaxContributionIndex :
          PrepareSubcommitteeOf(contributionIndex)
    \/ IsAggregatorModulo
SpecConstants == InitConstants /\ [][NextConstants]_vars

\* ================================================================== CLAIMS
\* ------------------------------------------------------ the block auction
\* The relay's task has sent a response (not an error).
SentResponse(r) == tasks[r].st = "sent" /\ tasks[r].out.ch = "resp"
\* The supervisor has taken the relay's response from respCh.
ResponseRead(r) ==
    SentResponse(r) /\ \A i \in DOMAIN respCh : respCh[i].provider # r
InAuction == pc \in {"loop1", "loop2"}
Returned == pc = "returned" /\ ret.results # Nil

\* C1: every provider listed in the results, while they are built and when
\* they are returned, sent a response whose score is the best score and whose
\* bid has the header of the winning bid.
C1_ProvidersMatchWinner ==
    /\ \A i \in DOMAIN res.Providers :
          LET p == res.Providers[i]
          IN  /\ SentResponse(p)
              /\ tasks[p].out.bid # Nil
              /\ res.Bid # Nil
              /\ tasks[p].out.score = bestScore
              /\ tasks[p].out.score = res.Bid.value
              /\ tasks[p].out.bid.header = res.Bid.header
    /\ ret.results # Nil => ret.results = res

\* Two relays are listed as providers of the returned winning bid.
C1_Witness == Returned /\ Len(ret.results.Providers) = 2

\* C2 as claimed: the returned values have an entry for exactly the relays
\* that sent a response on respCh.
C2_Original ==
    Returned => DOMAIN ret.results.Values = {r \in Relays : SentResponse(r)}

\* C2 as amended: the returned values have an entry, the score, for exactly the
\* relays whose response carried a bid and was read by the supervisor; none for
\* a relay that declined or bid below the minimum, errored, did not respond, or
\* whose response was still unread when the supervisor returned.
C2_ValuesOfReadBids ==
    Returned =>
        /\ DOMAIN ret.results.Values =
              {r \in Relays : ResponseRead(r) /\ tasks[r].out.bid # Nil}
        /\ \A r \in DOMAIN ret.results.Values :
              ret.results.Values[r] = tasks[r].out.score

\* Results are returned with one value, while the other relay's response, which
\* carried no bid, was read too.
C2_Witness ==
    /\ Returned
    /\ responded = 2
    /\ Cardinality(DOMAIN ret.results.Values) = 1
    /\ \E r \in Relays : ResponseRead(r) /\ tasks[r].out.bid = Nil

\* C3: within an auction the best score never goes down, and the winning bid
\* changes only at a response whose score is above the best score so far.
C3_BestScoreMonotone ==
    [][InAuction =>
          /\ bestScore' >= bestScore
          /\ res'.Bid # res.Bid =>
                /\ respCh # <<>>
                /\ Head(respCh).score > bestScore
                /\ bestScore' = Head(respCh).score
                /\ res'.Bid = Head(respCh).bid]_vars

\* A lower bid and the best bid have both been scored.
C3_Witness ==
    /\ InAuction
    /\ bestScore = MaxValue
    /\ \E r \in DOMAIN res.Values : res.Values[r] < bestScore

\* C4: the best-bid cache changes only when AuctionBlock returns results with a
\* winning bid, and then only at [slot][parentHash:pubkey], which becomes that
\* bid; every other step, the return of an auction without winner among them,
\* leaves the cache as it is.
C4_CacheWrittenWithWinner ==
    [][IF pc = "loop2" /\ pc' = "returned" /\ ret'.results # Nil
       THEN /\ ret'.results.Bid # Nil
            /\ DOMAIN builderBidsCache' = DOMAIN builderBidsCache \cup {slot}
            /\ builderBidsCache'[slot] =
                  [k \in SubKeys |-> ret'.results.Bid]
            /\ \A s \in DOMAIN builderBidsCache :
                  s # slot => builderBidsCache'[s] = builderBidsCache[s]
       ELSE builderBidsCache' = builderBidsCache]_vars

\* An auction with relays has returned without winner, and the cache still has
\* the bid an earlier auction won for the slot.
C4_Witness ==
    /\ pc = "returned"
    /\ requests > 0
    /\ ret.results = Nil
    /\ slot \in DOMAIN builderBidsCache

\* --------------------------------------------------------- the root cache
\* The step is the one of Message that stores the root it fetched.
MessageStores == msgPc \in {"idle", "done"} /\ msgPc' = "signing"
\* The step is the critical section of Aggregate.
AggregateReads == aggPc \in {"idle", "done"} /\ aggPc' \in {"pairs", "head"}

\* C5 as claimed: when Message completes after its signing phase, the cache
\* has the entry of the duty's slot, the root the messages were signed over.
C5_Original ==
    [][msgPc = "signing" /\ msgPc' = "done" =>
          /\ msgDuty'.slot \in DOMAIN beaconBlockRoots'
          /\ beaconBlockRoots'[msgDuty'.slot] = msgRoot']_vars

\* C5 as amended: a Message that fetched a root stores it as the entry of the
\* duty's slot, in place of any earlier one, before it signs; a Message that
\* fetched none stores nothing; an Aggregate for a slot that has an entry uses
\* that root and deletes the entry, whether Message has completed or not, and
\* one for a slot without entry turns to the head root and leaves the cache as
\* it is; no other step changes the cache.
C5_RootCacheLifecycle ==
    [][IF MessageStores
       THEN /\ msgRoot' = msgHead'.root
            /\ msgRoot' # NilRoot
            /\ beaconBlockRoots' =
                  [s \in DOMAIN beaconBlockRoots \cup {msgDuty'.slot} |->
                      IF s = msgDuty'.slot THEN msgRoot' ELSE beaconBlockRoots[s]]
       ELSE IF AggregateReads
       THEN IF aggDuty'.Slot \in DOMAIN beaconBlockRoots
            THEN /\ aggPc' = "pairs"
                 /\ aggRoot' = beaconBlockRoots[aggDuty'.Slot]
                 /\ beaconBlockRoots' =
                       [s \in DOMAIN beaconBlockRoots \ {aggDuty'.Slot} |->
                           beaconBlockRoots[s]]
            ELSE /\ aggPc' = "head"
                 /\ beaconBlockRoots' = beaconBlockRoots
       ELSE beaconBlockRoots' = beaconBlockRoots]_vars

\* Message has completed with success, and an Aggregate for its slot has taken
\* the root from the cache, which has no entry for the slot any more.
C5_Witness ==
    /\ msgPc = "done"
    /\ msgStatus = "succeeded"
    /\ aggPc = "pairs"
    /\ aggDuty.Slot = msgDuty.slot
    /\ aggRoot = msgRoot
    /\ msgDuty.slot \notin DOMAIN beaconBlockRoots

\* ----------------------------------------------------------- the aggregator
\* The (validator, subcommittee) pairs of the duty that have a selection proof.
ProofPairs(duty) ==
    UNION {{<<v, sub>> : sub \in duty.SelectionProofs[v]} :
           v \in Range(duty.ValidatorIndices)}
\* The (aggregator, subcommittee) pairs of a batch.
BatchPairs(batch) ==
    {<<batch[i].Message.AggregatorIndex,
       batch[i].Message.Contribution.SubcommitteeIndex>> : i \in DOMAIN batch}

\* C6: nothing is submitted by an Aggregate in which a fetch or a signature
\* failed, and what an Aggregate submits, once, has one contribution for every
\* pair of the duty that has a selection proof.
C6_AllOrNothing ==
    /\ aggPairFailed => aggSubmitted = <<>>
    /\ aggSubmitted # <<>> =>
          /\ Len(aggSubmitted) = 1
          /\ BatchPairs(aggSubmitted[1].batch) = ProofPairs(aggDuty)
          /\ Len(aggSubmitted[1].batch) = Cardinality(ProofPairs(aggDuty))

\* Aggregate has ended at a failed pair after a pair that succeeded, and has
\* submitted nothing.
C6_Witness ==
    /\ aggPc = "done"
    /\ aggPairFailed
    /\ Len(signedContributionAndProofs) >= 1
    /\ aggSubmitted = <<>>

\* ------------------------------------------------------------ the messenger
\* The validator indices of a batch of messages.
BatchValidators(batch) == {batch[i].ValidatorIndex : i \in DOMAIN batch}

\* C7: a Message that fetched a root submits once, whatever the signers did,
\* and the batch has one message for each validator whose signature succeeded
\* and none for the others.
C7_BestEffortBatch ==
    /\ msgPc = "done" /\ msgHead.err = Nil /\ msgHead.root # NilRoot =>
          Len(msgSubmitted) = 1
    /\ msgSubmitted # <<>> =>
          /\ BatchValidators(msgSubmitted[1].msgs) = msgSigned
          /\ Len(msgSubmitted[1].msgs) = Cardinality(msgSigned)
          /\ msgSigned \subseteq DOMAIN msgDuty.contributionIndices

\* Of the two validators of the duty one signature failed, and the batch
\* submitted has the message of the other.
C7_Witness ==
    /\ msgSubmitted # <<>>
    /\ Cardinality(DOMAIN msgDuty.contributionIndices) = 2
    /\ Len(msgSubmitted[1].msgs) = 1

\* C8 as claimed: a Message whose head root is nil, without error, returns a
\* non-nil error and no messages, stores no root and submits nothing.
C8_EmptyRootFails ==
    [][/\ messageVars' # messageVars
       /\ msgPc' = "done"
       /\ msgHead'.err = Nil
       /\ msgHead'.root = NilRoot
       => /\ msgRet'.err # Nil
          /\ msgRet'.msgs = Nil
          /\ beaconBlockRoots' = beaconBlockRoots
          /\ msgSubmitted' = <<>>]_vars

\* C9: when the submission fails, Message returns an error and no messages and
\* records "failed"; when it succeeds, Message returns the batch it submitted,
\* without error, and records "succeeded".
C9_SubmitOutcome ==
    msgPc = "done" /\ msgSubmitted # <<>> =>
        IF msgSubmitted[1].err # Nil
        THEN /\ msgRet.err # Nil
             /\ msgRet.msgs = Nil
             /\ msgStatus = "failed"
        ELSE /\ msgRet.err = Nil
             /\ msgRet.msgs = [list |-> msgSubmitted[1].msgs]
             /\ msgStatus = "succeeded"

\* The submission of a batch of messages has failed.
C9_Witness ==
    /\ msgPc = "done"
    /\ msgSubmitted # <<>>
    /\ msgSubmitted[1].err # Nil
    /\ msgSubmitted[1].msgs # <<>>

\* C10: in the batch Message collects and submits no validator index occurs
\* twice, and every message has the slot of the duty and the root fetched at
\* the start of the call.
C10_DistinctTriples ==
    /\ \A i \in DOMAIN msgs :
          /\ msgs[i].Slot = msgDuty.slot
          /\ msgs[i].BeaconBlockRoot = msgHead.root
          /\ \A j \in DOMAIN msgs :
                <<msgs[i].Slot, msgs[i].BeaconBlockRoot, msgs[i].ValidatorIndex>> =
                <<msgs[j].Slot, msgs[j].BeaconBlockRoot, msgs[j].ValidatorIndex>>
                => i = j
    /\ msgSubmitted # <<>> => msgSubmitted[1].msgs = msgs

\* A batch of two messages has been submitted.
C10_Witness == msgSubmitted # <<>> /\ Len(msgSubmitted[1].msgs) = 2

\* ------------------------------------------------------------------ Prepare
\* The (validator, subcommittee) pairs the duty's assignments hold.
AssignedPairs(assignments) ==
    UNION {{<<v, sub>> : sub \in DOMAIN assignments[v]} : v \in DOMAIN assignments}
\* Every assignment of a is one of b, with the same signature.
AssignmentsWithin(a, b) ==
    \A v \in DOMAIN a : \A sub \in DOMAIN a[v] :
        /\ v \in DOMAIN b
        /\ sub \in DOMAIN b[v]
        /\ b[v][sub] = a[v][sub]
PreparedAgain == prepPc = "done" /\ prepRuns >= 2

\* C11 as claimed: after Prepare has run a second time on a duty, with a
\* deterministic signer, the duty has the assignments and signatures it had
\* after the first run.
C11_Original ==
    PreparedAgain => aggregatorSubcommittees = prepFirst.assignments

\* C11 as amended: with a deterministic signer, when the first run of Prepare
\* on a duty returned no error, a second run returns no error and leaves the
\* assignments and signatures as they were; when the first run failed at a
\* signature, the second fails too, takes back or changes no assignment of the
\* first, and may add those of pairs the first run had not reached.
C11_PrepareIdempotentOnSuccess ==
    PreparedAgain =>
        /\ AssignmentsWithin(prepFirst.assignments, aggregatorSubcommittees)
        /\ (prepFirst.err = Nil) = (prepRet = Nil)
        /\ prepFirst.err = Nil => aggregatorSubcommittees = prepFirst.assignments

\* Prepare has run twice without error on a duty with two aggregator pairs.
C11_Witness ==
    /\ PreparedAgain
    /\ prepRet = Nil
    /\ Cardinality(AssignedPairs(aggregatorSubcommittees)) >= 2

\* C12: when the target is above SYNC_COMMITTEE_SIZE / SYNC_COMMITTEE_SUBNET_COUNT,
\* every pair for which the selection signing has succeeded is recorded in the
\* duty, with that signature, whatever the hash of the signature.
C12_ClampedModuloSelectsAll ==
    targetAggregatorsPerSyncCommittee > syncCommitteeSize \div syncCommitteeSubnetCount =>
        \A pair \in DOMAIN prepSigner :
            ~prepSigner[pair].err =>
                /\ pair \in AssignedPairs(aggregatorSubcommittees)
                /\ aggregatorSubcommittees[pair[1]][pair[2]] = prepSigner[pair]

\* With the target above the quotient, Prepare has returned without error and
\* recorded a pair whose signature hash is odd.
C12_Witness ==
    /\ targetAggregatorsPerSyncCommittee > syncCommitteeSize \div syncCommitteeSubnetCount
    /\ prepPc = "done"
    /\ prepRet = Nil
    /\ \E pair \in AssignedPairs(aggregatorSubcommittees) :
          aggregatorSubcommittees[pair[1]][pair[2]].hash % 2 = 1

\* ------------------------------------------- the block auction, second part
\* The step is the return of AuctionBlock from bestBuilderBid.
AuctionReturns == pc = "loop2" /\ pc' = "returned"
\* The step is the case of loop 1 for the soft timeout.
SoftTimeoutTaken ==
    pc = "loop1" /\ (timedOut' # timedOut \/ softTimedOut' # softTimedOut)

\* C13: a call of AuctionBlock that finds a proposer configuration without
\* relays returns no results and no error, starts no relay task, emits no
\* metric and leaves the cache as it is.
C13_ZeroRelays ==
    [][/\ auctionVars' # auctionVars
       /\ pc' = "returned"
       /\ requests' = 0
       /\ ret'.err = Nil
       => /\ pc \in {"idle", "returned"}
          /\ ret'.results = Nil
          /\ \A r \in Relays : tasks'[r] = NoTask
          /\ metrics' = {}
          /\ builderBidsCache' = builderBidsCache]_vars

\* After an auction that cached a bid, AuctionBlock has returned for a
\* proposer configuration without relays.
C13_Witness ==
    /\ pc = "returned"
    /\ requests = 0
    /\ ret = [results |-> Nil, err |-> Nil]
    /\ builderBidsCache # EmptyMap

\* Every relay of the proposer configuration has sent an error.
AllRelaysErrored ==
    /\ requests > 0
    /\ \A r \in 1..requests : tasks[r].st = "sent" /\ tasks[r].out.ch = "err"

\* C14: an auction all of whose relays send an error reads no response, has
\* no winner, and returns no results and no error, leaving the cache as it is.
C14_AllRelaysError ==
    [][AllRelaysErrored' =>
          /\ responded' = 0
          /\ res'.Bid = Nil
          /\ pc' = "returned" => ret' = [results |-> Nil, err |-> Nil]
          /\ AuctionReturns => builderBidsCache' = builderBidsCache]_vars

\* Both relays have sent an error, both errors have been read, and the auction
\* has returned while the cache has a bid of an earlier auction.
C14_Witness ==
    /\ pc = "returned"
    /\ AllRelaysErrored
    /\ requests = 2
    /\ errored = 2
    /\ builderBidsCache # EmptyMap

\* C15: the soft timeout taken when no relay has responded counts the relays
\* outstanding as soft timed out, not as timed out, so that loop 1 ends and
\* loop 2 runs; from then on the auction returns only when every relay has
\* responded or errored, or when ctx is done.
C15_SoftTimeoutWithoutResponse ==
    [][/\ SoftTimeoutTaken /\ responded = 0 =>
             /\ timedOut' = timedOut
             /\ softTimedOut' = requests - errored
             /\ pc' = "loop1"
       /\ AuctionReturns /\ softTimedOut > 0 =>
             \/ responded + errored = requests
             \/ ctxErr # "none"]_vars

\* The soft timeout was taken without response, and in loop 2, before the hard
\* deadline, a bid has been read and is the winner.
C15_Witness ==
    /\ pc = "loop2"
    /\ softTimedOut > 0
    /\ ctxErr = "none"
    /\ responded > 0
    /\ res.Bid # Nil

\* C16 as claimed: an auction in which relays have been counted as timed out
\* returns only when ctx is done: until then loop 2 waits for them.
C16_Original ==
    [][AuctionReturns /\ timedOut > 0 => ctxErr # "none"]_vars

\* C16 as amended: the soft timeout taken after a response has been read counts
\* the relays outstanding as timed out; the condition of loop 2 is then false,
\* so that nothing more is read and the auction returns what the responses
\* read so far have made of the results.
C16_SoftTimeoutAfterResponse ==
    [][/\ SoftTimeoutTaken /\ responded > 0 =>
             /\ timedOut' = requests - responded - errored
             /\ softTimedOut' = 0
       /\ InAuction /\ timedOut > 0 =>
             /\ pc = "loop1" => ~Loop1Cond
             /\ ~Loop2Cond
             /\ <<res, bestScore, responded, errored>>' =
                   <<res, bestScore, responded, errored>>]_vars

\* The auction has returned a bid before the hard deadline, with a relay
\* counted as timed out whose higher bid is in the channel, unread.
C16_Witness ==
    /\ Returned
    /\ ctxErr = "none"
    /\ timedOut > 0
    /\ \E i \in DOMAIN respCh : respCh[i].bid # Nil /\ respCh[i].score > bestScore

\* C18 as claimed: an auction whose caller has cancelled the context returns
\* no results.
C18_CancelReturnsNil ==
    pc = "returned" /\ ctxErr = "canceled" => ret.results = Nil

\* C19 as claimed: in loop 1, before any deadline, when every relay task
\* launched has sent its response or error and the supervisor has read them
\* all, the loop ends.
C19_LaunchedRelaysSuffice ==
    /\ pc = "loop1"
    /\ ~softDone
    /\ \A r \in Relays : tasks[r].st # "running"
    /\ respCh = <<>>
    /\ errCh = <<>>
    => ~Loop1Cond

\* The step reads a response that has a bid.
BidRead ==
    InAuction /\ respCh # <<>> /\ responded' = responded + 1 /\ Head(respCh).bid # Nil

\* C20: the providers change only when a response is read: they become the one
\* relay of a response above the best score, and get at their end the relay of
\* a response that has the best score and the header of the winning bid; every
\* relay whose bid is read, the lower bidders among them, gets its score in
\* the values.
C20_ProvidersInArrivalOrder ==
    [][/\ InAuction /\ res'.Providers # res.Providers => BidRead
       /\ BidRead =>
             LET resp == Head(respCh)
             IN  /\ res'.Providers =
                       IF resp.score > bestScore THEN <<resp.provider>>
                       ELSE IF /\ res.Bid # Nil
                               /\ resp.score = bestScore
                               /\ resp.bid.header = res.Bid.header
                       THEN res.Providers \o <<resp.provider>>
                       ELSE res.Providers
                 /\ resp.provider \in DOMAIN res'.Values
                 /\ res'.Values[resp.provider] = resp.score
                 /\ \A p \in DOMAIN res.Values :
                       p # resp.provider =>
                          p \in DOMAIN res'.Values /\ res'.Values[p] = res.Values[p]]_vars

\* The bid of relay 2 was read first, and relay 1 follows it as provider of
\* the same bid.
C20_Witness ==
    /\ InAuction
    /\ res.Providers = <<2, 1>>

\* C17: an auction whose ctx is done, by the hard deadline or otherwise,
\* returns, whatever its relay tasks do.
C17_HardDeadlineBounds ==
    (InAuction /\ ctxErr # "none") ~> (pc = "returned")

\* The auction has returned after the hard deadline while a relay task had not
\* sent anything.
C17_Witness ==
    /\ pc = "returned"
    /\ ctxErr = "deadline"
    /\ timedOut > 0
    /\ \E r \in 1..requests : tasks[r] = Running

\* --------------------------------------------------------- the relay caller
\* The task of relay r has sent its message, and what the relay answered is
\* kept with it.
Asked(r) == tasks[r].st = "sent" /\ "answer" \in DOMAIN tasks[r]
\* The relay answered with a bid (not an error, not nil, not an empty or
\* unparseable one).
AnsweredBid(r) == Asked(r) /\ tasks[r].answer.kind = "bid"
\* The bid's value is neither zero nor below the relay's minimum.
ValueAccepted(r) ==
    /\ tasks[r].answer.value > 0
    /\ tasks[r].answer.value >= tasks[r].relayConfig.MinValue
\* The bid's value is below the relay's minimum, and not zero.
BelowMinimum(r) ==
    /\ tasks[r].answer.value > 0
    /\ tasks[r].answer.value < tasks[r].relayConfig.MinValue
\* The relay's bid has a timestamp that is not the start of the auction's slot.
WrongTimestamp(r) ==
    AnsweredBid(r) /\ tasks[r].answer.timestamp # StartOfSlot(slot)
\* The relay is not in the results: not a provider, and without value.
NotInResults(r) ==
    /\ r \notin DOMAIN res.Values
    /\ \A i \in DOMAIN res.Providers : res.Providers[i] # r
    /\ ret.results # Nil =>
          /\ r \notin DOMAIN ret.results.Values
          /\ \A i \in DOMAIN ret.results.Providers : ret.results.Providers[i] # r
\* When the auction has returned, the bid of every relay but r is in the
\* returned values, and the winning bid is not below it.
OthersScored(r) ==
    pc = "returned" =>
        \A q \in Relays \ {r} :
            SentResponse(q) /\ tasks[q].out.bid # Nil =>
                /\ ret.results # Nil
                /\ q \in DOMAIN ret.results.Values
                /\ ret.results.Values[q] = tasks[q].out.score
                /\ ret.results.Bid.value >= tasks[q].out.score
\* The supervisor has counted every message it has read, as a response or as
\* an error.
MessagesCounted ==
    /\ errored + Len(errCh) =
          Cardinality({q \in Relays : tasks[q].st = "sent" /\ tasks[q].out.ch = "err"})
    /\ responded + Len(respCh) = Cardinality({q \in Relays : SentResponse(q)})

\* C21 as claimed: a relay whose bid has a timestamp that is not the start of
\* the slot sends an error, and is counted as errored.
C21_Original ==
    \A r \in Relays : WrongTimestamp(r) => tasks[r].out.ch = "err"

\* C21 as amended: a relay whose bid has a timestamp that is not the start of
\* the slot sends an error and is counted as errored, unless the bid's value is
\* below the relay's minimum (and not zero), in which case it sends a response
\* of score zero without bid and is counted as responded; either way it gets
\* no value, is no provider of the winning bid, and the bids of the other
\* relays are scored.
C21_TimestampMismatch ==
    /\ MessagesCounted
    /\ \A r \in Relays :
          WrongTimestamp(r) =>
              /\ tasks[r].out.ch = "resp" <=> BelowMinimum(r)
              /\ tasks[r].out.ch = "resp" =>
                    tasks[r].out.bid = Nil /\ tasks[r].out.score = 0
              /\ NotInResults(r)
              /\ OthersScored(r)

\* The auction has returned the bid of the second relay; the first relay's
\* bid had nothing wrong but its timestamp, and its error has been counted.
C21_Witness ==
    /\ pc = "returned"
    /\ WrongTimestamp(1)
    /\ ValueAccepted(1)
    /\ tasks[1].answer.feeRecipient = "set"
    /\ tasks[1].relayConfig.PublicKey = "nil"
    /\ tasks[1].relayConfig.providerPubkey = "nil"
    /\ errored = 1
    /\ ret.results # Nil
    /\ ret.results.Providers = <<2>>

\* The key the bid of relay r is to be verified under: the configured one, or
\* without it the provider's, or none.
VerificationKey(r) ==
    IF tasks[r].relayConfig.PublicKey # "nil"
    THEN tasks[r].relayConfig.PublicKey
    ELSE tasks[r].relayConfig.providerPubkey
\* There is a key, and the bid's signature does not verify under it.
BadSignature(r) ==
    /\ AnsweredBid(r)
    /\ VerificationKey(r) # "nil"
    /\ tasks[r].answer.signer # VerificationKey(r)
\* The task has sent a response that carries the bid.
BidAccepted(r) == tasks[r].out.ch = "resp" /\ tasks[r].out.bid # Nil

\* C22 as claimed: a relay whose bid's signature does not verify under the
\* configured key, or without one under the provider's, sends an error.
C22_Original ==
    \A r \in Relays : BadSignature(r) => tasks[r].out.ch = "err"

\* C22 as amended: the key is the configured one, or without it the
\* provider's.  A relay whose bid's signature does not verify under it sends an
\* error, unless the bid's value is below the relay's minimum (and not zero),
\* in which case it sends a response of score zero without bid; either way it
\* gets no value and is no provider of the winning bid.  A bid is accepted only
\* if there is no key or its signature verifies under the key; without key a
\* bid that passes the other checks is accepted.
C22_SignaturePolicy ==
    \A r \in Relays :
        AnsweredBid(r) =>
            /\ BadSignature(r) =>
                  /\ tasks[r].out.ch = "resp" <=> BelowMinimum(r)
                  /\ ~BidAccepted(r)
                  /\ NotInResults(r)
            /\ BidAccepted(r) =>
                  \/ VerificationKey(r) = "nil"
                  \/ tasks[r].answer.signer = VerificationKey(r)
            /\ /\ VerificationKey(r) = "nil"
               /\ ValueAccepted(r)
               /\ tasks[r].answer.feeRecipient = "set"
               /\ ~WrongTimestamp(r)
               => BidAccepted(r)

\* The first relay's bid, signed with the provider's key and not with the
\* configured one, was answered with an error, and the auction has returned
\* the bid of the second relay.
C22_Witness ==
    /\ pc = "returned"
    /\ AnsweredBid(1)
    /\ tasks[1].relayConfig.PublicKey = "k1"
    /\ tasks[1].relayConfig.providerPubkey = "k2"
    /\ tasks[1].answer.signer = "k2"
    /\ ValueAccepted(1)
    /\ tasks[1].answer.feeRecipient = "set"
    /\ ~WrongTimestamp(1)
    /\ tasks[1].out.ch = "err"
    /\ ret.results # Nil
    /\ ret.results.Providers = <<2>>

\* The rows of the table for the answer relay r got, in the table's order:
\* whether the row applies, and what the relay caller is to send.  An error
\* of the encoding is an error of the transport.
OutcomeRows(r) ==
    <<[applies |-> tasks[r].answer.kind \in {"transportErr", "marshalErr"}, send |-> "error"],
      [applies |-> tasks[r].answer.kind = "nil", send |-> "zero"],
      [applies |-> tasks[r].answer.kind = "empty", send |-> "error"],
      [applies |-> tasks[r].answer.kind = "valueErr", send |-> "error"],
      [applies |-> AnsweredBid(r) /\ tasks[r].answer.value = 0, send |-> "error"],
      [applies |-> AnsweredBid(r) /\ tasks[r].answer.value < tasks[r].relayConfig.MinValue,
       send |-> "zero"],
      [applies |-> AnsweredBid(r) /\ tasks[r].answer.feeRecipient = "zero", send |-> "error"],
      [applies |-> WrongTimestamp(r), send |-> "error"],
      [applies |-> BadSignature(r), send |-> "error"],
      [applies |-> TRUE, send |-> "bid"]>>
\* The first row that applies.
FirstRow(r) ==
    LET rows == OutcomeRows(r)
        i == CHOOSE k \in DOMAIN rows :
                 rows[k].applies /\ \A j \in 1..(k - 1) : ~rows[j].applies
    IN  rows[i].send
\* Every check of the bid passed: no row but the last applies.
EveryCheckPassed(r) ==
    LET rows == OutcomeRows(r)
    IN  \A k \in 1..(Len(rows) - 1) : ~rows[k].applies

\* C26: what the relay caller sends is given by the first row of the table
\* that applies to the relay's answer: an error, a response of score zero
\* without bid (for a value below the minimum even when the fee recipient, the
\* timestamp or the signature would be rejected), or a response with the bid
\* and the bid's value as score; a response carries a bid only if every check
\* passed.
C26_FirstApplicableRow ==
    \A r \in Relays :
        Asked(r) =>
            /\ FirstRow(r) = "error" => tasks[r].out.ch = "err"
            /\ FirstRow(r) = "zero" =>
                  /\ tasks[r].out.ch = "resp"
                  /\ tasks[r].out.bid = Nil
                  /\ tasks[r].out.score = 0
            /\ FirstRow(r) = "bid" =>
                  /\ tasks[r].out.ch = "resp"
                  /\ tasks[r].out.bid = TheBid(tasks[r].answer)
                  /\ tasks[r].out.score = tasks[r].answer.value
            /\ BidAccepted(r) => EveryCheckPassed(r)
\* The first relay's bid was below the minimum and had a zero fee recipient, a
\* wrong timestamp and a signature of another key; its response of score zero
\* has been read as a response.
C26_Witness ==
    /\ AnsweredBid(1)
    /\ BelowMinimum(1)
    /\ tasks[1].answer.feeRecipient = "zero"
    /\ WrongTimestamp(1)
    /\ BadSignature(1)
    /\ tasks[1].out.ch = "resp"
    /\ tasks[1].out.bid = Nil
    /\ responded >= 1
    /\ errored = 0
    /\ tasks[2].st = "running"

\* The supervisor reads a response whose bid has the best score so far and
\* another header than the winning bid.
TieRead ==
    /\ BidRead
    /\ res.Bid # Nil
    /\ Head(respCh).score = bestScore
    /\ Head(respCh).bid.header # res.Bid.header

\* C27: a response whose score is the best score so far and whose header is
\* not the winning bid's leaves the winning bid, the providers and the best
\* score as they are, whatever the values of the two bids; its score is
\* recorded in the values.
C27_FirstSeenWins ==
    [][TieRead =>
          /\ res'.Bid = res.Bid
          /\ res'.Providers = res.Providers
          /\ bestScore' = bestScore
          /\ res'.Values = MapSet(res.Values, Head(respCh).provider, Head(respCh).score)]_vars
\* The auction has returned the bid it read first; a relay whose bid had the
\* same value and another header has its value recorded and is no provider.
C27_Witness ==
    /\ Returned
    /\ Len(ret.results.Providers) = 1
    /\ \E q \in DOMAIN ret.results.Values :
          /\ q # ret.results.Providers[1]
          /\ ret.results.Values[q] = ret.results.Bid.value
          /\ tasks[q].out.bid # Nil
          /\ tasks[q].out.bid.header # ret.results.Bid.header

\* C28 as claimed: the soft timeout counts the relays outstanding as timed
\* out only when a bid has been read and is the winner, and an auction that
\* returns before ctx is done while relays are outstanding returns a bid:
\* responses without bid do not end the auction at the soft deadline.
C28_CredibleBidEndsWait ==
    [][/\ SoftTimeoutTaken /\ timedOut' > timedOut => res.Bid # Nil
       /\ AuctionReturns /\ ctxErr = "none" /\ responded + errored < requests
             => res.Bid # Nil]_vars

\* ------------------------------------------------ the messenger, third part
\* The pairs of a validator of the duty and one of its subcommittees.
DutyPairs ==
    UNION {{<<v, ci \div (syncCommitteeSize \div syncCommitteeSubnetCount)>> :
               ci \in Range(prepDuty.contributionIndices[v])} :
           v \in Range(prepDuty.validatorIndices)}
\* Prepare has returned without error.
Prepared == prepPc = "done" /\ prepRet = Nil
\* The modulo of the aggregator selection is 1.
ModuloIsOne ==
    (syncCommitteeSize \div syncCommitteeSubnetCount)
        \div targetAggregatorsPerSyncCommittee <= 1
\* isAggregator is true for the hash of a signature.
Selected(hash) ==
    IF ModuloIsOne THEN TRUE
    ELSE hash % ((syncCommitteeSize \div syncCommitteeSubnetCount)
                    \div targetAggregatorsPerSyncCommittee) = 0

\* C29: in a run of Prepare the selection signer is called at most once for
\* a pair, and only for pairs of the duty; when Prepare has returned without
\* error it was called once for every pair of the duty, whatever the modulo,
\* and the duty has a signature for a pair if and only if isAggregator was
\* true for it, which is then the signature the signer gave.
C29_OneCallPerPair ==
    /\ \A pair \in DOMAIN prepCalls : prepCalls[pair] = 1 /\ pair \in DutyPairs
    /\ Prepared =>
          /\ DOMAIN prepCalls = DutyPairs
          /\ \A pair \in DutyPairs :
                /\ pair \in AssignedPairs(aggregatorSubcommittees)
                      <=> Selected(prepSigner[pair].hash)
                /\ pair \in AssignedPairs(aggregatorSubcommittees)
                      => aggregatorSubcommittees[pair[1]][pair[2]] = prepSigner[pair]
\* Prepare has returned without error with a modulo of 1: the signer was
\* called for both subcommittees of a validator, and both are assigned.
C29_Witness ==
    /\ Prepared
    /\ ModuloIsOne
    /\ \E v \in Validators :
          /\ {<<v, 0>>, <<v, 1>>} \subseteq DOMAIN prepCalls
          /\ {<<v, 0>>, <<v, 1>>} \subseteq AssignedPairs(aggregatorSubcommittees)

\* The step is the call of SubmitSyncCommitteeMessages.
Submits == msgSubmitted' # msgSubmitted /\ msgSubmitted' # <<>>
\* The step is the end of a signing goroutine.
SigningEnds == msgPc = "signing" /\ msgPending' # msgPending

\* C30: the signing goroutines of a call of Message are all started before
\* any ends and end in any order; SubmitSyncCommitteeMessages is called only
\* when all have ended, once in a call of Message, with the messages collected
\* so far, to which none is added afterwards; a call that got a root has
\* submitted once when it returns.
C30_SubmitAfterAllSigned ==
    [][/\ msgPc' = "signing" /\ msgPc # "signing" =>
             msgPending' = DOMAIN msgDuty'.contributionIndices
       /\ Submits =>
             /\ msgPending = {}
             /\ msgSubmitted = <<>>
             /\ Len(msgSubmitted') = 1
             /\ msgSubmitted'[1].msgs = msgs
             /\ msgs' = msgs
       /\ SigningEnds => msgSubmitted = <<>> /\ msgSubmitted' = <<>>
       /\ msgSubmitted # <<>> /\ msgSubmitted' # <<>> =>
             /\ msgSubmitted' = msgSubmitted
             /\ msgs' = msgs
             /\ msgSubmitted[1].msgs = msgs
       /\ msgPc' = "done" /\ msgRoot' # NilRoot => Len(msgSubmitted') = 1]_vars
\* Message has returned after one submission of two messages, of which that
\* of the second validator was collected first.
C30_Witness ==
    /\ msgPc = "done"
    /\ Len(msgSubmitted) = 1
    /\ msgSubmitted[1].msgs = msgs
    /\ Len(msgs) = 2
    /\ msgs[1].ValidatorIndex = 2
    /\ msgs[2].ValidatorIndex = 1

\* ------------------------------------------------ the aggregator, second part
\* This call of Aggregate has fetched no contribution, signed nothing and
\* submitted nothing.
NothingDone(failed, batch, submitted) ==
    ~failed /\ batch = <<>> /\ submitted = <<>>

\* C23: Aggregate takes the root of the duty's slot from the cache when the
\* cache has one, and asks the beacon node for the head root when it has none;
\* when that gives an error or no root, Aggregate ends as failed, having
\* fetched no contribution, signed nothing and submitted nothing; otherwise the
\* root it got is the root of every contribution it fetches.
C23_RootOrFail ==
    [][/\ AggregateReads =>
             IF aggDuty'.Slot \in DOMAIN beaconBlockRoots
             THEN /\ aggPc' = "pairs"
                  /\ aggRoot' = beaconBlockRoots[aggDuty'.Slot]
             ELSE /\ aggPc' = "head"
                  /\ aggRoot' = NilRoot
                  /\ NothingDone(aggPairFailed', signedContributionAndProofs',
                                 aggSubmitted')
       /\ aggPc = "head" /\ aggPc' # "head" =>
             \/ /\ aggPc' = "pairs"
                /\ aggRoot' \in Roots
                /\ aggStatus' = aggStatus
             \/ /\ aggPc' = "done"
                /\ aggStatus' = "failed"
                /\ aggRoot' = NilRoot
                /\ NothingDone(aggPairFailed', signedContributionAndProofs',
                               aggSubmitted')
       /\ aggPc = "pairs" => aggRoot # NilRoot /\ aggRoot' = aggRoot
       /\ \A i \in DOMAIN signedContributionAndProofs' :
             signedContributionAndProofs'[i].Message.Contribution.BeaconBlockRoot
                = aggRoot']_vars

\* An Aggregate for a duty with a selection proof found no root in the cache
\* and none at the beacon node, and has ended as failed.
C23_Witness ==
    /\ aggPc = "done"
    /\ aggStatus = "failed"
    /\ aggRoot = NilRoot
    /\ ProofPairs(aggDuty) # {}
    /\ NothingDone(aggPairFailed, signedContributionAndProofs, aggSubmitted)

\* ------------------------------------------------ the wallet account manager
\* The duty evaluation is at a read of s.accounts.
DutyReadsAccounts ==
    \/ readPc \in {"lookup", "keys", "count"}
    \/ readPc = "visit" /\ readLeft # {}
\* Refresh is at its read of s.accounts, in refreshValidators.
RefreshReadsAccounts == refreshPc = "validators"
\* Refresh is at its write of s.accounts.
RefreshWritesAccounts == refreshPc = "write"
\* A read of the duty evaluation and the write of Refresh are both the next
\* step of their goroutine.
WriteOverlapsRead == RefreshWritesAccounts /\ DutyReadsAccounts

\* C24: the accounts map is read under the read lock and written under the
\* write lock: every read of it by the duty evaluation or by Refresh holds
\* the read lock, the write holds the lock, and no read stands beside the
\* write of a concurrent Refresh.
C24_SharedReadExclusiveWrite ==
    /\ DutyReadsAccounts => "duty" \in mutex.readers
    /\ RefreshReadsAccounts => "refresh" \in mutex.readers
    /\ RefreshWritesAccounts => mutex.writer
    /\ ~WriteOverlapsRead
\* ------------------------------------------------------ the proposal score
\* The proposal has been scored with the parent slot.
Scored(parentSlot) == parentSlot \in DOMAIN scores
\* The rows of the table for the proposal and the parent slot.
TestRows(parentSlot) ==
    {i \in DOMAIN tests : tests[i].block = proposal /\ tests[i].parentSlot = parentSlot}

BatchEntries(batch, v, sub) ==
    {i \in DOMAIN batch :
        /\ batch[i].Message.AggregatorIndex = v
        /\ batch[i].Message.Contribution.SubcommitteeIndex = sub}

\* C31: the batch of an Aggregate that succeeded, submitted once, has for
\* every pair of a validator of the duty and a subcommittee it has a selection
\* proof for exactly one entry, whose aggregator is the validator, whose
\* selection proof is the duty's for the pair and whose contribution is that
\* of the duty's slot, the subcommittee and the root Aggregate chose; it has
\* no other entry.
C31_BatchOfSuccess ==
    aggStatus = "succeeded" =>
        /\ Len(aggSubmitted) = 1
        /\ aggSubmitted[1].err = Nil
        /\ aggRoot # NilRoot
        /\ LET batch == aggSubmitted[1].batch
           IN  /\ \A pair \in ProofPairs(aggDuty) :
                     /\ Cardinality(BatchEntries(batch, pair[1], pair[2])) = 1
                     /\ \A i \in BatchEntries(batch, pair[1], pair[2]) :
                           /\ batch[i].Message.SelectionProof =
                                 SelectionProof(pair[1], aggDuty.Slot, pair[2])
                           /\ batch[i].Message.Contribution =
                                 Contribution(aggDuty.Slot, pair[2], aggRoot)
               /\ \A i \in DOMAIN batch :
                     <<batch[i].Message.AggregatorIndex,
                       batch[i].Message.Contribution.SubcommitteeIndex>>
                         \in ProofPairs(aggDuty)
\* Aggregate has succeeded with a batch for two validators, over the head
\* root it asked for.
C31_Witness ==
    /\ aggStatus = "succeeded"
    /\ Cardinality(ProofPairs(aggDuty)) = 2
    /\ Len(aggSubmitted[1].batch) = 2
    /\ aggDuty.Slot \notin DOMAIN beaconBlockRoots
    /\ msgPc = "idle"
\* The step is the critical section of call a of Aggregate.
CallReads(a) == calls[a].pc \in {"idle", "done"} /\ calls'[a].pc \in {"pairs", "head"}
\* Call a is under way.
InCall(a) == calls[a].pc \in {"head", "pairs"}

\* C32: a root stored for a slot is obtained from the cache by at most one
\* call of Aggregate, whether the calls for the slot follow each other or run
\* at the same time: the call that finds the entry takes the root and deletes
\* the entry in the same critical section, a call that finds none asks for the
\* head, and no later step of a call, failure included, puts an entry back.
C32_TakeOnce ==
    [][/\ \A s \in Slots : taken'[s] <= stored'[s]
       /\ \A a \in AggregateCalls :
             /\ CallReads(a) =>
                   LET s == calls'[a].slot
                   IN  /\ s \notin DOMAIN beaconBlockRoots'
                       /\ IF s \in DOMAIN beaconBlockRoots
                          THEN /\ calls'[a].pc = "pairs"
                               /\ calls'[a].from = "cache"
                               /\ calls'[a].root = beaconBlockRoots[s]
                          ELSE /\ calls'[a].pc = "head"
                               /\ calls'[a].from = "none"
             /\ InCall(a) /\ calls'[a] # calls[a] =>
                   /\ beaconBlockRoots' = beaconBlockRoots
                   /\ calls'[a].from \in {calls[a].from, "head"}]_vars
\* Two calls of Aggregate for the same slot are under way after one store for
\* it: one has the root of the cache, the other that of the head.
C32_Witness ==
    /\ calls[1].pc = "pairs" /\ calls[2].pc = "pairs"
    /\ calls[1].slot = calls[2].slot
    /\ stored[calls[1].slot] = 1
    /\ calls[1].from = "cache"
    /\ calls[2].from = "head"

\* Message and Aggregate have both ended, for duties of the same slot.
BothCompleted ==
    /\ msgPc = "done"
    /\ aggPc = "done"
    /\ msgDuty.slot = aggDuty.Slot

\* C33 as claimed: when Message and Aggregate for the same slot have both
\* ended, in whatever order their steps were taken, the cache has no entry
\* for the slot.
C33_NoStaleEntry ==
    BothCompleted => aggDuty.Slot \notin DOMAIN beaconBlockRoots

\* A task that has yet to send finds room in either channel.
SendHasRoom ==
    \A r \in Relays :
        tasks[r] = Running =>
            /\ Len(respCh) < ChannelCapacity(requests)
            /\ Len(errCh) < ChannelCapacity(requests)

\* C34: the send of a relay task never waits, whichever channel it is on and
\* whether or not the supervisor still reads, so that every task launched can
\* take its step and end; and what a task sends once AuctionBlock has
\* returned changes neither the results returned nor the cache nor the
\* metrics.
C34_SendsNeverLeak ==
    [][/\ SendHasRoom
       /\ SendHasRoom'
       /\ (pc = "returned" /\ \E r \in Relays : tasks[r] = Running /\ tasks'[r].st = "sent") =>
              /\ pc' = "returned"
              /\ ret' = ret
              /\ res' = res
              /\ builderBidsCache' = builderBidsCache
              /\ metrics' = metrics
              /\ <<responded, errored, timedOut>>' = <<responded, errored, timedOut>>]_vars

\* AuctionBlock has returned a winning bid after the hard deadline, one relay's
\* message was read, and the other relay has sent a message that nobody reads.
C34_Witness ==
    /\ pc = "returned"
    /\ ctxErr = "deadline"
    /\ ret.results # Nil
    /\ responded = 1
    /\ \A r \in Relays : tasks[r].st = "sent"
    /\ Len(respCh) = 1

\* The tasks that have acquired the semaphore and not released it.
Holding == {a \in WalletAccounts : fetchTasks[a] = "acquired"}

\* C35: while the accounts of a wallet are fetched at most processConcurrency
\* tasks hold the semaphore; a task that has ended holds none of it, whichever
\* way it ended; and fetchAccountsForWallet has returned only when every task
\* it launched has ended.
C35_BoundedConcurrency ==
    /\ Cardinality(Holding) <= processConcurrency
    /\ sem = Cardinality(Holding)
    /\ fetchPc = "returned" =>
          /\ \A a \in WalletAccounts : fetchTasks[a] \in {"none", "finished"}
          /\ sem = 0

\* Three tasks were launched with room for two: two hold the semaphore and the
\* third waits for it.
C35_Witness ==
    /\ processConcurrency = 2
    /\ Cardinality(Holding) = 2
    /\ \E a \in WalletAccounts : fetchTasks[a] = "launched"
    /\ fetchPc = "wait"

\* The slot is the last of its epoch.
LastSlotOfEpoch(s) == (s + 1) % slotsPerEpoch = 0

\* C36: every message Message has made for a duty of slot s carries slot s
\* and a signature made for the epoch that holds slot s + 1, which for the
\* last slot of an epoch is the epoch after that of s.
C36_SignedForNextSlotEpoch ==
    \A i \in DOMAIN msgs :
        LET m == msgs[i]
            s == msgDuty.slot
        IN  /\ m.Slot = s
            /\ m.Signature.epoch * slotsPerEpoch <= s + 1
            /\ s + 1 < (m.Signature.epoch + 1) * slotsPerEpoch
            /\ LastSlotOfEpoch(s) =>
                  m.Signature.epoch * slotsPerEpoch = s + 1

\* A message of the last slot of epoch 0, signed for epoch 1.
C36_Witness ==
    /\ msgStatus = "succeeded"
    /\ LastSlotOfEpoch(msgDuty.slot)
    /\ \E i \in DOMAIN msgs :
          /\ msgs[i].Slot = 1
          /\ msgs[i].Signature.epoch = 1

\* C37 as claimed: a call of AuctionBlock that has returned holds no read lock
\* of the execution configuration, whichever return it took.
C37_ReadLockReleased ==
    pc \in {"idle", "returned"} => executionConfigMu = 0


\* The relays whose task was launched, and those whose task has sent.
Launched == {r \in Relays : tasks[r].st # "none"}
HasSent == {r \in Relays : tasks[r].st = "sent"}

\* The messages of relay r that are in a channel.
InChannel(r) ==
    Cardinality({i \in DOMAIN respCh : respCh[i].provider = r})
    + Cardinality({i \in DOMAIN errCh : errCh[i] = r})

\* C38: a task that has sent has sent one message, on one channel; the
\* messages read and unread are those of the tasks that have sent, so
\* responded + errored is at most the number of tasks launched, which is at
\* most requests; timedOut and softTimedOut are never negative; and when
\* bestBuilderBid has returned, responded + errored + timedOut = requests.
C38_Accounting ==
    /\ \A r \in Relays : InChannel(r) <= 1
    /\ \A r \in Relays \ HasSent : InChannel(r) = 0
    /\ responded + errored + Len(respCh) + Len(errCh) = Cardinality(HasSent)
    /\ responded + errored <= Cardinality(Launched)
    /\ Cardinality(Launched) <= requests
    /\ timedOut >= 0
    /\ softTimedOut >= 0
    /\ pc = "returned" => responded + errored + timedOut = requests

\* An auction of two relays has returned: one response was read, one relay
\* was counted as timed out, and that relay's task was launched.
C38_Witness ==
    /\ pc = "returned"
    /\ requests = 2
    /\ Cardinality(Launched) = 2
    /\ responded = 1
    /\ errored = 0
    /\ timedOut = 1

\* delta of AuctionBlock's metrics loop for provider p of the results r.
Delta(r, p) == r.Bid.value - r.Values[p]

\* C39: in the results AuctionBlock returns, no provider's value is above the
\* value of the winning bid, so no delta is negative; the delta of every
\* provider of the winning bid is zero; and the deltas recorded as metrics
\* are those of the other providers that bid.
C39_DeltasNotNegative ==
    Returned =>
        LET r == ret.results
            selected == {r.Providers[i] : i \in DOMAIN r.Providers}
        IN  /\ \A p \in DOMAIN r.Values :
                  /\ r.Values[p] <= r.Bid.value
                  /\ Delta(r, p) >= 0
            /\ selected \subseteq DOMAIN r.Values
            /\ \A p \in selected : Delta(r, p) = 0
            /\ \A m \in metrics :
                  m.kind = "delta" =>
                      /\ m.provider \in DOMAIN r.Values \ selected
                      /\ m.delta = Delta(r, m.provider)
                      /\ m.delta >= 0

\* Results with a winner and a provider whose bid was lower: its delta is
\* positive and was recorded.
C39_Witness ==
    /\ Returned
    /\ \E p \in DOMAIN ret.results.Values : Delta(ret.results, p) > 0
    /\ \E m \in metrics : m.kind = "delta" /\ m.delta > 0

\* C40 as claimed: whatever the three constants New has accepted, the
\* subcommittee Prepare computes and the modulo isAggregator computes are
\* computed without a division by zero, and modulo is at least 1.
C40_WellDefined ==
    /\ ~computed.panic
    /\ computed.op = "modulo" => computed.value >= 1
====
